---- MODULE Spec2Model ----
(***************************************************************************)
(* FlousWise ai-service: the chat endpoint, the RAG pipeline               *)
(* (RAGService.query), the profile cache (ProfileService), the chat        *)
(* history store (ChatHistoryService) and the book ingestion script.       *)
(***************************************************************************)
EXTENDS Integers, Sequences, FiniteSets, TLC

(***************************************************************************)
(* Bounds of the model.                                                    *)
(***************************************************************************)
\* chat requests the client sends, one after the other
MaxChats == 2
\* the clock stops after MaxTime ticks
MaxTime == 2
\* ProfileService.cache_ttl, in clock ticks
cache_ttl == 2
\* RAGService.top_k
top_k == 2
\* ingestion runs started at most
MaxRuns == 2
\* calls of get_user_profile started at most
MaxGets == 2
\* calls of invalidate_cache at most
MaxInvalidates == 1
\* characters of a text handed to chunk_text at most
MaxTextLen == 7
\* chunk_size handed to chunk_text at most
MaxChunkSize == 3
\* texts handed to generate_embeddings at most
MaxBatch == 2
\* calls of _construct_prompt with one set of arguments
MaxPromptCalls == 2
\* messages in the chat history
MaxMessages == 3
\* limit handed to the history reads at most
MaxLimit == 2
\* lines in the body of a streamed generation
MaxLines == 3
\* the limit=100 of the history route, scaled to the messages of the model
RouteLimit == 2
\* requests whose dependencies are resolved in one process
MaxRequests == 3

Users == {"u1", "u2"}

(***************************************************************************)
(* JSON values as Python sees them after json.loads / response.json().     *)
(***************************************************************************)
JNull == [type |-> "null"]
JNum(n) == [type |-> "number", n |-> n]
JStr(s) == [type |-> "string", s |-> s]
JObj(f) == [type |-> "object", fields |-> f]
JArr(items) == [type |-> "array", items |-> items]
EmptyDict == JObj(<<>>)

\* dict.get(key, default)
Get(d, key, default) == IF key \in DOMAIN d.fields THEN d.fields[key] ELSE default

\* An exception raised, or a value returned.
Raise(e) == [exc |-> e, val |-> JNull]
Return(v) == [exc |-> "None", val |-> v]

RECURSIVE SumSeq(_)
SumSeq(s) == IF s = <<>> THEN 0 ELSE Head(s) + SumSeq(Tail(s))

RECURSIVE SetToSeq(_)
SetToSeq(S) == IF S = {} THEN <<>> ELSE LET x == CHOOSE y \in S : TRUE IN <<x>> \o SetToSeq(S \ {x})

\* the values of a dict, in some order
Values(d) == LET ks == SetToSeq(DOMAIN d.fields) IN [i \in 1..Len(ks) |-> d.fields[ks[i]]]

AllNumbers(vals) == \A i \in 1..Len(vals) : vals[i].type = "number"
Nums(vals) == [i \in 1..Len(vals) |-> vals[i].n]

(***************************************************************************)
(* Texts.                                                                  *)
(***************************************************************************)
\* request.question: ChatRequest requires min_length = 1, so "" never comes
\* through the endpoint, a whitespace-only question does.
Questions == {"how to save", " "}
WhitespaceOnly == {" "}
\* str.strip()
Strip(text) == IF text \in WhitespaceOnly THEN "" ELSE text

ONBOARDING_MESSAGE == "I notice you haven't set up your financial profile yet."
LlmTexts == {"advice"}

VARIABLES
  now,          \* wall clock
  redis,        \* Redis: cache key (user id) -> entry
  chroma,       \* the persisted ChromaDB collection
  mongo,        \* the chat_history collection, in insertion order
  context,      \* ContextService.context, loaded at construction
  uuids,        \* uuid4 values handed out so far
  chats,        \* chat requests received so far
  req,          \* the chat request in progress: the handler's position and locals
  ing,          \* the ingestion script's position and locals
  gets,         \* callers of ProfileService.get_user_profile: position and locals
  ops,          \* cache operations so far, and which users' invalidate_cache returned
  call,         \* a call of a function of the service: arguments and result
  rag           \* the RAGService instance (unconstructed, ready or failed) and the
                \* output dimension of its embedding model

vars == <<now, redis, chroma, mongo, context, uuids, chats, req, ing, gets, ops, call, rag>>

(***************************************************************************)
(* EmbeddingService                                                        *)
(***************************************************************************)
\* SentenceTransformer.encode, a black box: equal texts get equal vectors. A
\* vector is one coordinate here; a question's, and a passage's by its place
\* in the book.
\* output dimension of all-MiniLM-L6-v2, the default model and the one the
\* ingestion script loads, and of all-mpnet-base-v2
MiniLmDimension == 384
MpnetDimension == 768
ServiceReady == [state |-> "ready", dimension |-> MiniLmDimension]

TextCode(text) == IF text = "budget" THEN 1 ELSE 0
Encode(text) == [v |-> TextCode(text), dim |-> rag.dimension]
EncodeWords(doc) == [v |-> 1 + (doc.from \div 450), dim |-> MiniLmDimension]

generate_embedding_NoValidation(text, encodeOk) ==
  IF ~encodeOk THEN Raise("EmbeddingException") ELSE Return(Encode(text))

\* generate_embedding(text); encodeOk: whether model.encode returns
generate_embedding(text, encodeOk) ==
  IF text = "" \/ Strip(text) = "" THEN Raise("EmbeddingException")
  ELSE IF ~encodeOk THEN Raise("EmbeddingException")
  ELSE Return(Encode(text))

\* generate_embeddings(texts): blank texts are filtered out, the rest is
\* encoded in one batch (model.encode gives a text the same vector in a batch
\* as alone)
generate_embeddings(texts, encodeOk) ==
  IF texts = <<>> THEN Return(<<>>)
  ELSE LET valid_texts == SelectSeq(texts, LAMBDA text : ~(text = "" \/ Strip(text) = "")) IN
       IF valid_texts = <<>> THEN Raise("EmbeddingException")
       ELSE IF ~encodeOk THEN Raise("EmbeddingException")
       ELSE Return([i \in 1..Len(valid_texts) |-> Encode(valid_texts[i])])

(***************************************************************************)
(* ChromaDB collection                                                     *)
(***************************************************************************)
\* cosine distance of two vectors (0 for equal vectors)
Distance(a, b) == IF a.v < b.v THEN b.v - a.v ELSE a.v - b.v

\* positions of docs in ascending distance to q, ties in insertion order
RECURSIVE Ranked(_, _, _)
Ranked(docs, q, taken) ==
  LET left == (1..Len(docs)) \ taken IN
  IF left = {} THEN <<>>
  ELSE LET best == CHOOSE i \in left :
                     \A j \in left :
                        \/ Distance(docs[i].embedding, q) < Distance(docs[j].embedding, q)
                        \/ /\ Distance(docs[i].embedding, q) = Distance(docs[j].embedding, q)
                           /\ i <= j
       IN <<best>> \o Ranked(docs, q, taken \cup {best})

Prefix(s, n) == [i \in 1..(IF Len(s) < n THEN Len(s) ELSE n) |-> s[i]]

\* collection.query(query_embeddings=[q], n_results=n); dbOk: whether the
\* store answers at all
CollectionQuery(coll, q, n, dbOk) ==
  IF ~coll.exists \/ ~dbOk THEN Raise("ChromaError")
  ELSE IF \E i \in 1..Len(coll.docs) : coll.docs[i].embedding.dim # q.dim
       THEN Raise("InvalidDimensionException")
  ELSE LET order == Prefix(Ranked(coll.docs, q, {}), n) IN
       Return([documents |-> [i \in 1..Len(order) |-> coll.docs[order[i]].document],
               metadatas |-> [i \in 1..Len(order) |-> coll.docs[order[i]].metadata]])

(***************************************************************************)
(* ProfileService: Redis cache in front of the Finance Service             *)
(***************************************************************************)
NoEntry == [set |-> FALSE, value |-> JNull, expires |-> 0]

\* json.dumps / json.loads
JsonDumps(v) == [json |-> v]
JsonLoads(s) == s.json

RedisGet_NoExpiry(key) == IF redis[key].set THEN redis[key].value ELSE JNull

\* redis.get(key): the stored string, or None once the TTL has elapsed
RedisGet(key) ==
  IF redis[key].set /\ now < redis[key].expires THEN redis[key].value ELSE JNull

RedisSetex_FromEpoch(key, ttl, value) ==
  [redis EXCEPT ![key] = [set |-> TRUE, value |-> value, expires |-> ttl]]

\* redis.setex(key, ttl, value)
RedisSetex(key, ttl, value) ==
  [redis EXCEPT ![key] = [set |-> TRUE, value |-> value, expires |-> now + ttl]]

\* profile payloads the Finance Service can answer with
FullProfile(u) ==
  JObj([userId |-> JStr(u),
        monthlyIncome |-> JObj([salary |-> JNum(9000)]),
        fixedExpenses |-> JObj([rent |-> JNum(8200)]),
        financialGoals |-> JArr(<<JObj([name |-> JStr("house")])>>)])
BareProfile(u) == JObj([userId |-> JStr(u)])
NullIncomeProfile(u) == JObj([userId |-> JStr(u), monthlyIncome |-> JNull])
Payloads(u) == {FullProfile(u), BareProfile(u), NullIncomeProfile(u)}

\* what GET /api/profile can come back with: status 0 is a transport error,
\* body "invalid" is a body that is not JSON
HttpResponses(u) ==
  {[status |-> 404, body |-> JNull], [status |-> 500, body |-> JNull],
   [status |-> 0, body |-> JNull], [status |-> 200, body |-> [type |-> "invalid"]]}
  \cup {[status |-> 200, body |-> p] : p \in Payloads(u)}

\* get_user_profile after the cache miss: the outcome of the fetch
FetchOutcome(user_id, response) ==
  IF response.status = 0 THEN Raise("ProfileFetchException")
  ELSE IF response.status = 404 THEN Raise("ProfileNotFoundException")
  ELSE IF response.status # 200 THEN Raise("ProfileFetchException")
  ELSE IF response.body.type = "invalid" THEN Raise("ProfileFetchException")
  ELSE Return(response.body)

(***************************************************************************)
(* ContextService                                                          *)
(***************************************************************************)
EmptyContext == EmptyDict
GoodContext == JObj([salaries |-> JObj([minimum_wage |-> JNum(3045)])])
BadContext == JObj([salaries |-> JObj([minimum_wage |-> JStr("3,045 MAD")])])
\* what _load_context can leave in self.context
Contexts == {EmptyContext, GoodContext, BadContext}

\* the file at context_file_path: missing, unreadable, not JSON, or a JSON text
ContextFiles ==
  {[kind |-> k, value |-> JNull] : k \in {"missing", "unreadable", "invalid"}}
  \cup {[kind |-> "json", value |-> v] :
          v \in {JNull, JNum(1), JStr("x"), JArr(<<>>), EmptyDict, GoodContext, BadContext}}

_load_context_NoKeys(file) == IF file.kind = "json" THEN file.value ELSE EmptyDict

\* _load_context(): {} for a missing file, for a JSONDecodeError and for any
\* other exception; the debug line calls context.keys(), which raises inside
\* the try for a JSON value that is not an object
_load_context(file) ==
  IF file.kind = "missing" THEN EmptyDict
  ELSE IF file.kind = "unreadable" THEN EmptyDict
  ELSE IF file.kind = "invalid" THEN EmptyDict
  ELSE LET loaded == file.value IN
       IF loaded.type # "object" THEN EmptyDict ELSE loaded

\* format(value, ","): defined for numbers only
FormatThousands(v) ==
  IF v.type = "number" THEN Return(v.n)
  ELSE IF v.type = "string" THEN Raise("ValueError")
  ELSE Raise("TypeError")

\* get_formatted_context(): the salary section
get_formatted_context(ctx) ==
  IF DOMAIN ctx.fields = {} THEN Return([fallback |-> TRUE, minimum_wage |-> 0])
  ELSE IF "salaries" \in DOMAIN ctx.fields
          /\ "minimum_wage" \in DOMAIN ctx.fields["salaries"].fields
       THEN LET f == FormatThousands(ctx.fields["salaries"].fields["minimum_wage"]) IN
            IF f.exc # "None" THEN Raise(f.exc)
            ELSE Return([fallback |-> FALSE, minimum_wage |-> f.val])
       ELSE Return([fallback |-> FALSE, minimum_wage |-> 0])

(***************************************************************************)
(* RAGService._construct_prompt                                            *)
(***************************************************************************)
\* len(x)
PyLen(x) ==
  IF x.type = "array" THEN Return(Len(x.items))
  ELSE IF x.type = "object" THEN Return(Cardinality(DOMAIN x.fields))
  ELSE Raise("TypeError")

\* sum(d.values()) if isinstance(d, dict) else 0
SumDict(d) ==
  IF d.type # "object" THEN Return(0)
  ELSE IF ~AllNumbers(Values(d)) THEN Raise("TypeError")
  ELSE Return(SumSeq(Nums(Values(d))))

\* sum(debt.get("remainingAmount", 0) for debt in debts) if debts else 0
SumDebts(debts) ==
  IF debts.type = "null" THEN Return(0)
  ELSE IF debts.type # "array" THEN Raise("AttributeError")
  ELSE IF \E i \in 1..Len(debts.items) : debts.items[i].type # "object"
       THEN Raise("AttributeError")
  ELSE LET amounts == [i \in 1..Len(debts.items) |->
                         Get(debts.items[i], "remainingAmount", JNum(0))] IN
       IF ~AllNumbers(amounts) THEN Raise("TypeError")
       ELSE Return(SumSeq(Nums(amounts)))

RateTenths_OfExpenses(income, expenses) == (2 * expenses * 1000 + income) \div (2 * income)

\* round(x * 10) for x = (income - expenses) / income * 100, income > 0
RateTenths(income, expenses) ==
  LET a == (income - expenses) * 1000 IN
  IF a >= 0 THEN (2 * a + income) \div (2 * income)
  ELSE 0 - ((2 * (0 - a) + income) \div (2 * income))

BookKnowledge_NoMarker(book_chunks, metadatas) ==
  [marker |-> FALSE,
   excerpts |-> [i \in 1..(IF Len(book_chunks) < Len(metadatas) THEN Len(book_chunks)
                           ELSE Len(metadatas)) |->
                   [i |-> i, title |-> metadatas[i].title, chunk |-> book_chunks[i]]]]

\* the book knowledge block: the header with one entry per (chunk, metadata)
\* pair, or the marker line
BookKnowledge(book_chunks, metadatas) ==
  IF Len(book_chunks) > 0
  THEN LET n == IF Len(book_chunks) < Len(metadatas) THEN Len(book_chunks) ELSE Len(metadatas) IN
       [marker |-> FALSE,
        excerpts |-> [i \in 1..n |-> [i |-> i,
                                      title |-> metadatas[i].title,
                                      chunk |-> book_chunks[i]]]]
  ELSE [marker |-> TRUE, excerpts |-> <<>>]

_construct_prompt_Dated(user_question, user_profile, book_chunks, metadatas, moroccan_context) ==
  Return([generated_at |-> now, user_question |-> user_question,
          book_knowledge |-> BookKnowledge(book_chunks, metadatas)])

_construct_prompt(user_question, user_profile, book_chunks, metadatas, moroccan_context) ==
  LET income == Get(user_profile, "monthlyIncome", EmptyDict)
      fixed_expenses == Get(user_profile, "fixedExpenses", EmptyDict)
      variable_expenses == Get(user_profile, "variableExpenses", EmptyDict)
      debts == Get(user_profile, "debts", JArr(<<>>))
      goals == Get(user_profile, "financialGoals", JArr(<<>>))
  IN
  IF income.type # "object" THEN Raise("AttributeError")
  ELSE
  LET parts == <<Get(income, "salary", JNum(0)), Get(income, "freelance", JNum(0)),
                 Get(income, "other", JNum(0))>>
      total_fixed == SumDict(fixed_expenses)
      total_variable == SumDict(variable_expenses)
      total_debt == SumDebts(debts)
      n_goals == PyLen(goals)
  IN
  IF ~AllNumbers(parts) THEN Raise("TypeError")
  ELSE IF total_fixed.exc # "None" THEN Raise(total_fixed.exc)
  ELSE IF total_variable.exc # "None" THEN Raise(total_variable.exc)
  ELSE IF total_debt.exc # "None" THEN Raise(total_debt.exc)
  ELSE IF n_goals.exc # "None" THEN Raise(n_goals.exc)
  ELSE
  LET total_income == SumSeq(Nums(parts))
      total_expenses == total_fixed.val + total_variable.val
  IN
  Return([total_income |-> total_income,
          total_expenses |-> total_expenses,
          savings_rate |-> IF total_income > 0
                           THEN RateTenths(total_income, total_expenses) ELSE 0,
          total_debt |-> total_debt.val,
          goals |-> n_goals.val,
          moroccan_context |-> moroccan_context,
          book_knowledge |-> BookKnowledge(book_chunks, metadatas),
          user_question |-> user_question])

(***************************************************************************)
(* LLMService.generate_response                                            *)
(***************************************************************************)
\* what the POST to Ollama can end in
LlmOutcomes ==
  {[kind |-> "ok", text |-> t] : t \in LlmTexts}
  \cup {[kind |-> k, text |-> ""] : k \in {"timeout", "http_error", "bad_body"}}

generate_response(prompt, system_message, outcome) ==
  IF outcome.kind = "timeout" THEN Raise("LLMTimeoutException")
  ELSE IF outcome.kind = "http_error" THEN Raise("LLMServiceException")
  ELSE IF outcome.kind = "bad_body" THEN Raise("LLMServiceException")
  ELSE Return(outcome.text)

(***************************************************************************)
(* RAGService.query: the handling of each step's outcome                   *)
(***************************************************************************)
RetrievalStep_Raise(outcome) ==
  IF outcome.exc # "None" THEN Raise(outcome.exc)
  ELSE Return([book_chunks |-> outcome.val.documents, metadatas |-> outcome.val.metadatas,
               failed |-> FALSE])

\* STEP 2: what the query does with the outcome of collection.query
RetrievalStep(outcome) ==
  IF outcome.exc # "None"
  THEN Return([book_chunks |-> <<>>, metadatas |-> <<>>, failed |-> TRUE])
  ELSE Return([book_chunks |-> outcome.val.documents, metadatas |-> outcome.val.metadatas,
               failed |-> FALSE])

Placeholder_NoUser(user_id) == JObj([error |-> JStr("Profile not available")])

Placeholder(user_id) ==
  JObj([userId |-> JStr(user_id), error |-> JStr("Profile not available")])

ProfileStep_Reraise(user_id, outcome) ==
  IF outcome.exc # "None" THEN Raise(outcome.exc) ELSE Return(outcome.val)

\* STEP 3: what the query does with the outcome of get_user_profile
ProfileStep(user_id, outcome) ==
  IF outcome.exc # "None" THEN Return(Placeholder(user_id)) ELSE Return(outcome.val)

\* the outer handler of query: what an exception e inside the try becomes
QueryExcept(e) == "RAGException"

(***************************************************************************)
(* chat(): POST /api/chat                                                  *)
(***************************************************************************)
NoPrompt == [none |-> TRUE]
NoDir == [exists |-> FALSE, files |-> <<>>]
\* what the index query found in the store (for the ingestion properties)
NoSeen == [during |-> FALSE, exists |-> TRUE, docs |-> <<>>, prior |-> <<>>, dir |-> NoDir]
NoCalls == [embedder |-> 0, index |-> 0, source |-> 0, llm |-> 0]

IdleReq ==
  [pc |-> "idle", user_id |-> "u1", question |-> "", conversation_id |-> 0,
   query |-> "none", failedAt |-> "none", raised |-> "None",
   question_embedding |-> JNull, retrieval |-> "none",
   book_chunks |-> <<>>, metadatas |-> <<>>,
   profile_result |-> "none", fetched |-> JNull, user_profile |-> JNull,
   moroccan_context |-> JNull, prompt |-> NoPrompt, response |-> "",
   answer |-> "", status |-> 0, detail |-> "",
   saved |-> <<>>, append_errors |-> 0, calls |-> NoCalls, lookup_at |-> -1,
   seen |-> NoSeen]

Document(user_id, conversation_id, role, message) ==
  [userId |-> user_id, conversationId |-> conversation_id, role |-> role,
   message |-> message, timestamp |-> now]

\* the response of the endpoint for an exception leaving the handler body
HttpError(rq, detail) ==
  [rq EXCEPT !.pc = "responded", !.status = 500, !.detail = detail]

\* chat_routes.py 84-104: what the handler does with the outcome of query
AfterQuery(rq, outcome) ==
  IF outcome.exc = "None"
  THEN [rq EXCEPT !.pc = "save_assistant", !.query = "Done", !.response = outcome.val,
                  !.answer = outcome.val]
  ELSE IF outcome.exc = "ProfileNotFoundException"
  THEN [rq EXCEPT !.pc = "save_assistant", !.query = "ProfileNotFound",
                  !.raised = outcome.exc, !.answer = ONBOARDING_MESSAGE]
  ELSE IF outcome.exc = "RAGException"
  THEN HttpError([rq EXCEPT !.query = "Failed", !.raised = outcome.exc],
                 "Failed to generate response. Please try again.")
  ELSE HttpError([rq EXCEPT !.query = "Failed", !.raised = outcome.exc],
                 "An unexpected error occurred. Please try again.")

\* an exception e in step `stage` of query reaches the outer handler
QueryFails(rq, stage, e) ==
  AfterQuery([rq EXCEPT !.failedAt = stage], Raise(QueryExcept(e)))

ProvidedConversations == {1}
NewUuid == 100 + uuids

ChatStart(u, q, c) ==
  /\ req.pc \in {"idle", "responded"}
  /\ chats < MaxChats
  /\ chats' = chats + 1
  /\ req' = [IdleReq EXCEPT !.pc = "save_user", !.user_id = u, !.question = q,
                            !.conversation_id = IF c # 0 THEN c ELSE NewUuid]
  /\ uuids' = IF c # 0 THEN uuids ELSE uuids + 1
  /\ UNCHANGED <<gets, ops, call, rag, now, redis, chroma, mongo, context, ing>>

\* save_message(role="user"), then the handler enters query
SaveUserMessage ==
  /\ req.pc = "save_user"
  /\ \E insertOk \in BOOLEAN :
       IF insertOk
       THEN /\ mongo' = Append(mongo, Document(req.user_id, req.conversation_id,
                                               "user", req.question))
            /\ req' = [req EXCEPT !.pc = "Embedding", !.query = "running",
                                  !.saved = Append(@, "user")]
       ELSE /\ mongo' = mongo
            /\ req' = HttpError([req EXCEPT !.append_errors = @ + 1],
                                "An unexpected error occurred. Please try again.")
  /\ UNCHANGED <<gets, ops, call, rag, now, redis, chroma, context, uuids, chats, ing>>

\* STEP 1
Embedding ==
  /\ req.pc = "Embedding"
  /\ \E encodeOk \in BOOLEAN :
       LET rq == [req EXCEPT !.calls.embedder = @ + 1]
           res == generate_embedding(rq.question, encodeOk) IN
       req' = IF res.exc # "None" THEN QueryFails(rq, "Embedding", res.exc)
              ELSE [rq EXCEPT !.pc = "Retrieving", !.question_embedding = res.val]
  /\ UNCHANGED <<gets, ops, call, rag, now, redis, chroma, mongo, context, uuids, chats, ing>>

Retrieving_SkipsProfile ==
  /\ req.pc = "Retrieving"
  /\ \E dbOk \in BOOLEAN :
       LET rq == [req EXCEPT !.calls.index = @ + 1,
                             !.seen = [during |-> ing.pc # "idle", exists |-> chroma.exists,
                                       docs |-> chroma.docs, prior |-> ing.prior,
                                       dir |-> ing.dir]]
           step == RetrievalStep(CollectionQuery(chroma, rq.question_embedding, top_k, dbOk)) IN
       req' = IF step.exc # "None" THEN QueryFails(rq, "Retrieving", step.exc)
              ELSE [rq EXCEPT !.pc = "ContextLoading",
                              !.retrieval = IF step.val.failed THEN "failed" ELSE "ok",
                              !.book_chunks = step.val.book_chunks,
                              !.metadatas = step.val.metadatas]
  /\ UNCHANGED <<gets, ops, call, rag, now, redis, chroma, mongo, context, uuids, chats, ing>>

\* STEP 2
Retrieving ==
  /\ req.pc = "Retrieving"
  /\ \E dbOk \in BOOLEAN :
       LET rq == [req EXCEPT !.calls.index = @ + 1,
                             !.seen = [during |-> ing.pc # "idle", exists |-> chroma.exists,
                                       docs |-> chroma.docs, prior |-> ing.prior,
                                       dir |-> ing.dir]]
           step == RetrievalStep(CollectionQuery(chroma, rq.question_embedding, top_k, dbOk)) IN
       req' = IF step.exc # "None" THEN QueryFails(rq, "Retrieving", step.exc)
              ELSE [rq EXCEPT !.pc = "ProfileLoading",
                              !.retrieval = IF step.val.failed THEN "failed" ELSE "ok",
                              !.book_chunks = step.val.book_chunks,
                              !.metadatas = step.val.metadatas]
  /\ UNCHANGED <<gets, ops, call, rag, now, redis, chroma, mongo, context, uuids, chats, ing>>

\* the profile step is over with `outcome`; the query goes on or fails
AfterProfile(rq, outcome) ==
  LET step == ProfileStep(rq.user_id, outcome) IN
  IF step.exc # "None" THEN QueryFails(rq, "ProfileLoading", step.exc)
  ELSE [rq EXCEPT !.pc = "ContextLoading", !.user_profile = step.val]

ProfileLoading_WaitsForStore ==
  /\ req.pc = "ProfileLoading"
  /\ \A c \in DOMAIN gets : gets[c].pc \notin {"fetch", "store"}
  /\ \E redisOk \in BOOLEAN :
       LET cached == IF redisOk THEN RedisGet(req.user_id) ELSE JNull IN
       req' = IF cached # JNull
              THEN AfterProfile([req EXCEPT !.profile_result = "hit", !.lookup_at = now],
                                Return(JsonLoads(cached)))
              ELSE [req EXCEPT !.pc = "ProfileFetch"]
  /\ UNCHANGED <<gets, ops, call, rag, now, redis, chroma, mongo, context, uuids, chats, ing>>

\* STEP 3, get_user_profile: the cache lookup
ProfileLoading ==
  /\ req.pc = "ProfileLoading"
  /\ \E redisOk \in BOOLEAN :
       LET cached == IF redisOk THEN RedisGet(req.user_id) ELSE JNull IN
       req' = IF cached # JNull
              THEN AfterProfile([req EXCEPT !.profile_result = "hit", !.lookup_at = now],
                                Return(JsonLoads(cached)))
              ELSE [req EXCEPT !.pc = "ProfileFetch"]
  /\ UNCHANGED <<gets, ops, call, rag, now, redis, chroma, mongo, context, uuids, chats, ing>>

ProfileFetch_Retry ==
  /\ req.pc = "ProfileFetch"
  /\ \E response \in HttpResponses(req.user_id) :
       LET rq == [req EXCEPT !.calls.source = @ + 1]
           outcome == FetchOutcome(rq.user_id, response) IN
       req' = IF outcome.exc = "ProfileFetchException" /\ rq.calls.source < 3 THEN rq
              ELSE IF outcome.exc # "None"
              THEN AfterProfile([rq EXCEPT !.profile_result = outcome.exc], outcome)
              ELSE [rq EXCEPT !.pc = "ProfileCache", !.fetched = outcome.val]
  /\ UNCHANGED <<gets, ops, call, rag, now, redis, chroma, mongo, context, uuids, chats, ing>>

\* STEP 3, get_user_profile: the request to the Finance Service
ProfileFetch ==
  /\ req.pc = "ProfileFetch"
  /\ \E response \in HttpResponses(req.user_id) :
       LET rq == [req EXCEPT !.calls.source = @ + 1]
           outcome == FetchOutcome(rq.user_id, response) IN
       req' = IF outcome.exc # "None"
              THEN AfterProfile([rq EXCEPT !.profile_result = outcome.exc], outcome)
              ELSE [rq EXCEPT !.pc = "ProfileCache", !.fetched = outcome.val]
  /\ UNCHANGED <<gets, ops, call, rag, now, redis, chroma, mongo, context, uuids, chats, ing>>

\* STEP 3, get_user_profile: the cache write, then the return
ProfileCache ==
  /\ req.pc = "ProfileCache"
  /\ \E redisOk \in BOOLEAN :
       redis' = IF redisOk
                THEN RedisSetex(req.user_id, cache_ttl, JsonDumps(req.fetched))
                ELSE redis
  /\ req' = AfterProfile([req EXCEPT !.profile_result = "fetched"], Return(req.fetched))
  /\ UNCHANGED <<gets, ops, call, rag, now, chroma, mongo, context, uuids, chats, ing>>

\* STEP 4
ContextLoading ==
  /\ req.pc = "ContextLoading"
  /\ LET res == get_formatted_context(context) IN
     req' = IF res.exc # "None" THEN QueryFails(req, "ContextLoading", res.exc)
            ELSE [req EXCEPT !.pc = "Assembling", !.moroccan_context = res.val]
  /\ UNCHANGED <<gets, ops, call, rag, now, redis, chroma, mongo, context, uuids, chats, ing>>

\* STEP 5
Assembling ==
  /\ req.pc = "Assembling"
  /\ LET res == _construct_prompt(req.question, req.user_profile, req.book_chunks,
                                  req.metadatas, req.moroccan_context) IN
     req' = IF res.exc # "None" THEN QueryFails(req, "Assembling", res.exc)
            ELSE [req EXCEPT !.pc = "Generating", !.prompt = res.val]
  /\ UNCHANGED <<gets, ops, call, rag, now, redis, chroma, mongo, context, uuids, chats, ing>>

\* STEP 6
Generating ==
  /\ req.pc = "Generating"
  /\ \E outcome \in LlmOutcomes :
       LET rq == [req EXCEPT !.calls.llm = @ + 1]
           res == generate_response(rq.prompt, "system", outcome) IN
       req' = IF res.exc # "None" THEN QueryFails(rq, "Generating", res.exc)
              ELSE AfterQuery(rq, Return(res.val))
  /\ UNCHANGED <<gets, ops, call, rag, now, redis, chroma, mongo, context, uuids, chats, ing>>

SaveAssistantMessage_NewConversation ==
  /\ req.pc = "save_assistant"
  /\ \E insertOk \in BOOLEAN :
       IF insertOk
       THEN /\ mongo' = Append(mongo, Document(req.user_id, NewUuid,
                                               "assistant", req.answer))
            /\ req' = [req EXCEPT !.pc = "responded", !.status = 200,
                                  !.saved = Append(@, "assistant")]
       ELSE /\ mongo' = mongo
            /\ req' = HttpError([req EXCEPT !.append_errors = @ + 1],
                                "An unexpected error occurred. Please try again.")
  /\ UNCHANGED <<gets, ops, call, rag, now, redis, chroma, context, uuids, chats, ing>>

\* save_message(role="assistant"), then the response
SaveAssistantMessage ==
  /\ req.pc = "save_assistant"
  /\ \E insertOk \in BOOLEAN :
       IF insertOk
       THEN /\ mongo' = Append(mongo, Document(req.user_id, req.conversation_id,
                                               "assistant", req.answer))
            /\ req' = [req EXCEPT !.pc = "responded", !.status = 200,
                                  !.saved = Append(@, "assistant")]
       ELSE /\ mongo' = mongo
            /\ req' = HttpError([req EXCEPT !.append_errors = @ + 1],
                                "An unexpected error occurred. Please try again.")
  /\ UNCHANGED <<gets, ops, call, rag, now, redis, chroma, context, uuids, chats, ing>>

Tick ==
  /\ now < MaxTime
  /\ now' = now + 1
  /\ UNCHANGED <<gets, ops, call, rag, redis, chroma, mongo, context, uuids, chats, req, ing>>

(***************************************************************************)
(* scripts/ingest_books.py                                                 *)
(***************************************************************************)
chunk_size == 500
overlap == 50

Min(a, b) == IF a < b THEN a ELSE b

\* chunk_text over a text of n words: the word slices [from, to) of the chunks.
\* A window that cannot advance and has not reached the end never terminates.
RECURSIVE ChunkLoop(_, _, _, _)
ChunkLoop_DropsShortTail(n, size, over, start) ==
  IF ~(start < n) THEN <<>>
  ELSE LET end == start + size IN
       IF end > n THEN <<>>
       ELSE IF end = n THEN <<[from |-> start, to |-> end]>>
       ELSE IF size - over <= 0 THEN <<[from |-> -1, to |-> -1]>>
       ELSE <<[from |-> start, to |-> end]>> \o ChunkLoop(n, size, over, start + (size - over))

ChunkLoop_NoOverlap(n, size, over, start) ==
  IF ~(start < n) THEN <<>>
  ELSE LET end == start + size
           chunk == [from |-> start, to |-> Min(end, n)] IN
       IF end >= n THEN <<chunk>>
       ELSE <<chunk>> \o ChunkLoop(n, size, over, start + size)

ChunkLoop_WideWindow(n, size, over, start) ==
  IF ~(start < n) THEN <<>>
  ELSE LET end == start + size + 1
           chunk == [from |-> start, to |-> Min(end, n)] IN
       IF end >= n THEN <<chunk>>
       ELSE IF size - over <= 0 THEN <<[from |-> -1, to |-> -1]>>
       ELSE <<chunk>> \o ChunkLoop(n, size, over, start + (size - over))

ChunkLoop(n, size, over, start) ==
  IF ~(start < n) THEN <<>>
  ELSE LET end == start + size
           chunk == [from |-> start, to |-> Min(end, n)] IN
       IF end >= n THEN <<chunk>>
       ELSE IF size - over <= 0 THEN <<[from |-> -1, to |-> -1]>>
       ELSE <<chunk>> \o ChunkLoop(n, size, over, start + (size - over))

chunk_text(n, size, over) == IF n = 0 THEN <<>> ELSE ChunkLoop(n, size, over, 0)

\* texts: sequences of characters
Chars == {"a", "b", " "}
Texts == UNION {[1..k -> Chars] : k \in 0..MaxTextLen}

\* text.split(): the maximal runs of non-blank characters
RECURSIVE SplitFrom(_, _, _)
SplitFrom(text, i, word) ==
  IF i > Len(text) THEN (IF word = <<>> THEN <<>> ELSE <<word>>)
  ELSE IF text[i] = " "
       THEN (IF word = <<>> THEN <<>> ELSE <<word>>) \o SplitFrom(text, i + 1, <<>>)
       ELSE SplitFrom(text, i + 1, Append(word, text[i]))

Split(text) == SplitFrom(text, 1, <<>>)

\* ' '.join(words)
RECURSIVE Join(_)
Join(words) ==
  IF words = <<>> THEN <<>>
  ELSE IF Len(words) = 1 THEN words[1]
  ELSE words[1] \o <<" ">> \o Join(Tail(words))

\* words[start:end] for 0 <= start
Slice(words, start, end) == SubSeq(words, start + 1, Min(end, Len(words)))

\* chunk_text(text, chunk_size, overlap): the chunks, or no return when the
\* loop never ends
Chunks(text, size, over) ==
  LET words == Split(text)
      windows == chunk_text(Len(words), size, over) IN
  IF \E i \in 1..Len(windows) : windows[i].from < 0 THEN Raise("NoReturn")
  ELSE Return([i \in 1..Len(windows) |->
                 Join(Slice(words, windows[i].from, windows[i].to))])

Pending == Raise("pending")

\* the calls of chunk_text: any text, chunk_size >= 1, any overlap around it
ChunkCalls ==
  [fn : {"chunk_text"}, text : Texts, size : 1..MaxChunkSize,
   over : (-1)..MaxChunkSize, texts : {<<>>}, encodeOk : {TRUE}, done : {FALSE},
   result : {Pending}]

\* the calls of generate_embeddings
BatchTexts == {"", " ", "how to save", "budget"}
BatchCalls ==
  [fn : {"generate_embeddings"}, text : {<<>>}, size : {1}, over : {0},
   texts : UNION {[1..k -> BatchTexts] : k \in 0..MaxBatch}, encodeOk : BOOLEAN,
   done : {FALSE}, result : {Pending}]

BatchCall ==
  /\ call.fn = "generate_embeddings"
  /\ ~call.done
  /\ call' = [call EXCEPT !.done = TRUE,
                          !.result = generate_embeddings(call.texts, call.encodeOk)]
  /\ UNCHANGED <<now, redis, chroma, mongo, context, uuids, chats, req, ing, gets, ops, rag>>

ChunkCall ==
  /\ call.fn = "chunk_text"
  /\ ~call.done
  /\ call' = [call EXCEPT !.done = TRUE,
                          !.result = Chunks(call.text, call.size, call.over)]
  /\ UNCHANGED <<now, redis, chroma, mongo, context, uuids, chats, req, ing, gets, ops, rag>>

\* the .txt files a books directory can hold, in glob order
Book1 == [stem |-> "rich_dad", nwords |-> 950, readable |-> TRUE]
Book2 == [stem |-> "budgeting", nwords |-> 400, readable |-> TRUE]
Book3 == [stem |-> "scan", nwords |-> 0, readable |-> FALSE]
BooksDirs ==
  {[exists |-> FALSE, files |-> <<>>], [exists |-> TRUE, files |-> <<>>],
   [exists |-> TRUE, files |-> <<Book2>>], [exists |-> TRUE, files |-> <<Book1, Book3>>]}

BookPassages_CountFromOne(book) ==
  IF ~book.readable THEN <<>>
  ELSE LET chunks == chunk_text(book.nwords, chunk_size, overlap) IN
       [i \in 1..Len(chunks) |->
          [id |-> <<book.stem, "_chunk_", i - 1>>,
           document |-> [book |-> book.stem, from |-> chunks[i].from, to |-> chunks[i].to],
           metadata |-> [title |-> book.stem, chunk_id |-> i, chunk_total |-> Len(chunks)]]]

\* step 4 for one book: its passages
BookPassages(book) ==
  IF ~book.readable THEN <<>>
  ELSE LET chunks == chunk_text(book.nwords, chunk_size, overlap) IN
       [i \in 1..Len(chunks) |->
          [id |-> <<book.stem, "_chunk_", i - 1>>,
           document |-> [book |-> book.stem, from |-> chunks[i].from, to |-> chunks[i].to],
           metadata |-> [title |-> book.stem, chunk_id |-> i - 1, chunk_total |-> Len(chunks)]]]

RECURSIVE AllPassages(_)
AllPassages(files) ==
  IF files = <<>> THEN <<>> ELSE BookPassages(Head(files)) \o AllPassages(Tail(files))

\* steps 5 and 6: the records collection.add stores
Embedded(passages) ==
  [i \in 1..Len(passages) |->
     [id |-> passages[i].id, document |-> passages[i].document,
      metadata |-> passages[i].metadata, embedding |-> EncodeWords(passages[i].document)]]

\* the collection a completed run over `dir` leaves
Generation(dir) == Embedded(AllPassages(dir.files))

IdleIngest == [pc |-> "idle", dir |-> NoDir,
               passages |-> <<>>, records |-> <<>>, prior |-> <<>>, outcome |-> "none"]

\* the script is started on a books directory
IngestStart(dir) ==
  /\ ing.pc = "idle"
  /\ ing.runs < MaxRuns
  /\ ing' = [IdleIngest EXCEPT !.pc = "delete", !.dir = dir, !.prior = chroma.docs]
               @@ [runs |-> ing.runs + 1]
  /\ UNCHANGED <<gets, ops, call, rag, now, redis, chroma, mongo, context, uuids, chats, req>>

\* client.delete_collection, any error ignored
IngestDelete ==
  /\ ing.pc = "delete"
  /\ \E dbOk \in BOOLEAN :
       chroma' = IF dbOk THEN [exists |-> FALSE, docs |-> <<>>] ELSE chroma
  /\ ing' = [ing EXCEPT !.pc = "create"]
  /\ UNCHANGED <<gets, ops, call, rag, now, redis, mongo, context, uuids, chats, req>>

IngestCreate_GetOrCreate ==
  /\ ing.pc = "create"
  /\ \E dbOk \in BOOLEAN :
       IF dbOk
       THEN /\ chroma' = [chroma EXCEPT !.exists = TRUE]
            /\ ing' = [ing EXCEPT !.pc = "scan"]
       ELSE /\ chroma' = chroma
            /\ ing' = [ing EXCEPT !.pc = "idle", !.outcome = "crashed"]
  /\ UNCHANGED <<gets, ops, call, rag, now, redis, mongo, context, uuids, chats, req>>

\* client.create_collection: fails when the collection is still there
IngestCreate ==
  /\ ing.pc = "create"
  /\ \E dbOk \in BOOLEAN :
       IF dbOk /\ ~chroma.exists
       THEN /\ chroma' = [exists |-> TRUE, docs |-> <<>>]
            /\ ing' = [ing EXCEPT !.pc = "scan"]
       ELSE /\ chroma' = chroma
            /\ ing' = [ing EXCEPT !.pc = "idle", !.outcome = "crashed"]
  /\ UNCHANGED <<gets, ops, call, rag, now, redis, mongo, context, uuids, chats, req>>

\* steps 2 to 4: load the model, list the directory, read and chunk the books
IngestScan ==
  /\ ing.pc = "scan"
  /\ \E modelOk \in BOOLEAN :
       ing' = IF ~modelOk THEN [ing EXCEPT !.pc = "idle", !.outcome = "crashed"]
              ELSE IF ~ing.dir.exists THEN [ing EXCEPT !.pc = "idle", !.outcome = "no_directory"]
              ELSE IF Len(ing.dir.files) = 0 THEN [ing EXCEPT !.pc = "idle", !.outcome = "no_files"]
              ELSE [ing EXCEPT !.pc = "embed", !.passages = AllPassages(ing.dir.files)]
  /\ UNCHANGED <<gets, ops, call, rag, now, redis, chroma, mongo, context, uuids, chats, req>>

\* step 5: model.encode over all documents
IngestEmbed ==
  /\ ing.pc = "embed"
  /\ \E encodeOk \in BOOLEAN :
       ing' = IF encodeOk THEN [ing EXCEPT !.pc = "add", !.records = Embedded(ing.passages)]
              ELSE [ing EXCEPT !.pc = "idle", !.outcome = "crashed"]
  /\ UNCHANGED <<gets, ops, call, rag, now, redis, chroma, mongo, context, uuids, chats, req>>

\* step 6: collection.add
IngestAdd ==
  /\ ing.pc = "add"
  /\ \E dbOk \in BOOLEAN :
       IF dbOk /\ chroma.exists /\ Len(ing.records) > 0
       THEN /\ chroma' = [chroma EXCEPT !.docs = @ \o ing.records]
            /\ ing' = [ing EXCEPT !.pc = "idle", !.outcome = "complete"]
       ELSE /\ chroma' = chroma
            /\ ing' = [ing EXCEPT !.pc = "idle", !.outcome = "crashed"]
  /\ UNCHANGED <<gets, ops, call, rag, now, redis, mongo, context, uuids, chats, req>>

(***************************************************************************)
(* ProfileService used by concurrent callers                               *)
(***************************************************************************)
Callers == {1, 2}

IdleGet ==
  [pc |-> "idle", user_id |-> "u1", result |-> "none", value |-> JNull,
   fetched |-> JNull, source |-> 0, found |-> "none", stored |-> FALSE,
   after |-> "none", deletes |-> 0]

\* what a lookup at this moment finds under the key: nothing, an entry whose
\* TTL has elapsed, or a live entry
Found(key) ==
  IF ~redis[key].set THEN "absent"
  ELSE IF now >= redis[key].expires THEN "expired" ELSE "live"

\* last[u]: whether the get for u that returned last returned a profile
\* ("returned") or raised ("failed"); deletes[u]: the invalidations of u that
\* deleted the key; held[u]: how many of them had happened when the profile
\* now under the key was fetched from the source
NoOps == [gets |-> 0, invalidates |-> 0, invalidated |-> [u \in Users |-> FALSE],
          last |-> [u \in Users |-> "none"],
          deletes |-> [u \in Users |-> 0], held |-> [u \in Users |-> 0]]

NoCall == [fn |-> "none"]

\* a caller enters get_user_profile(user_id, jwt_token)
GetStart(c, u) ==
  /\ gets[c].pc \in {"idle", "returned"}
  /\ ops.gets < MaxGets
  /\ gets' = [gets EXCEPT ![c] = [IdleGet EXCEPT !.pc = "lookup", !.user_id = u,
                                                 !.after = ops.last[u]]]
  /\ ops' = [ops EXCEPT !.gets = @ + 1]
  /\ UNCHANGED <<now, redis, chroma, mongo, context, uuids, chats, req, ing, call, rag>>

\* the cache lookup: a hit returns json.loads(cached), a Redis error counts
\* as a miss
GetLookup(c) ==
  /\ gets[c].pc = "lookup"
  /\ \E redisOk \in BOOLEAN :
       LET g == [gets[c] EXCEPT !.found = Found(gets[c].user_id)]
           cached == IF redisOk THEN RedisGet(g.user_id) ELSE JNull IN
       IF cached # JNull
       THEN /\ gets' = [gets EXCEPT ![c] = [g EXCEPT !.pc = "returned", !.result = "hit",
                                                     !.value = JsonLoads(cached)]]
            /\ ops' = [ops EXCEPT !.last[g.user_id] = "returned"]
       ELSE /\ gets' = [gets EXCEPT ![c] = [g EXCEPT !.pc = "fetch"]]
            /\ ops' = ops
  /\ UNCHANGED <<now, redis, chroma, mongo, context, uuids, chats, req, ing, call, rag>>

GetFetch_CachesFailure(c) ==
  /\ gets[c].pc = "fetch"
  /\ \E response \in HttpResponses(gets[c].user_id) :
       LET g == [gets[c] EXCEPT !.source = @ + 1]
           outcome == FetchOutcome(g.user_id, response) IN
       IF outcome.exc # "None"
       THEN /\ gets' = [gets EXCEPT ![c] = [g EXCEPT !.pc = "returned",
                                                     !.result = outcome.exc]]
            /\ ops' = [ops EXCEPT !.last[g.user_id] = "failed"]
            /\ redis' = RedisSetex(g.user_id, cache_ttl, JsonDumps(Placeholder(g.user_id)))
       ELSE /\ gets' = [gets EXCEPT ![c] = [g EXCEPT !.pc = "store",
                                                     !.fetched = outcome.val,
                                                     !.deletes = ops.deletes[g.user_id]]]
            /\ ops' = ops
            /\ redis' = redis
  /\ UNCHANGED <<now, chroma, mongo, context, uuids, chats, req, ing, call, rag>>

\* the request to the Finance Service: 404 and every other failure leave
\* get_user_profile as an exception
GetFetch(c) ==
  /\ gets[c].pc = "fetch"
  /\ \E response \in HttpResponses(gets[c].user_id) :
       LET g == [gets[c] EXCEPT !.source = @ + 1]
           outcome == FetchOutcome(g.user_id, response) IN
       IF outcome.exc # "None"
       THEN /\ gets' = [gets EXCEPT ![c] = [g EXCEPT !.pc = "returned",
                                                     !.result = outcome.exc]]
            /\ ops' = [ops EXCEPT !.last[g.user_id] = "failed"]
       ELSE /\ gets' = [gets EXCEPT ![c] = [g EXCEPT !.pc = "store",
                                                     !.fetched = outcome.val,
                                                     !.deletes = ops.deletes[g.user_id]]]
            /\ ops' = ops
  /\ UNCHANGED <<now, redis, chroma, mongo, context, uuids, chats, req, ing, call, rag>>

GetStore_KeepsExisting(c) ==
  /\ gets[c].pc = "store"
  /\ \E redisOk \in BOOLEAN :
       /\ redis' = IF redisOk /\ ~redis[gets[c].user_id].set
                   THEN RedisSetex(gets[c].user_id, cache_ttl, JsonDumps(gets[c].fetched))
                   ELSE redis
       /\ gets' = [gets EXCEPT ![c] = [gets[c] EXCEPT !.pc = "returned",
                                                      !.result = "fetched",
                                                      !.value = gets[c].fetched,
                                                      !.fetched = JNull,
                                                      !.stored = redisOk,
                                                      !.deletes = 0]]
       /\ ops' = [ops EXCEPT !.last[gets[c].user_id] = "returned",
                              !.invalidated[gets[c].user_id] =
                                 IF redisOk THEN FALSE ELSE @,
                              !.held[gets[c].user_id] =
                                 IF redisOk /\ ~redis[gets[c].user_id].set
                                 THEN gets[c].deletes ELSE @]
  /\ UNCHANGED <<now, chroma, mongo, context, uuids, chats, req, ing, call, rag>>

\* the cache write (a Redis error is logged only), then the return
GetStore(c) ==
  /\ gets[c].pc = "store"
  /\ \E redisOk \in BOOLEAN :
       /\ redis' = IF redisOk
                   THEN RedisSetex(gets[c].user_id, cache_ttl, JsonDumps(gets[c].fetched))
                   ELSE redis
       /\ gets' = [gets EXCEPT ![c] = [gets[c] EXCEPT !.pc = "returned",
                                                      !.result = "fetched",
                                                      !.value = gets[c].fetched,
                                                      !.fetched = JNull,
                                                      !.stored = redisOk,
                                                      !.deletes = 0]]
       /\ ops' = [ops EXCEPT !.last[gets[c].user_id] = "returned",
                              !.invalidated[gets[c].user_id] =
                                 IF redisOk THEN FALSE ELSE @,
                              !.held[gets[c].user_id] =
                                 IF redisOk THEN gets[c].deletes ELSE @]
  /\ UNCHANGED <<now, chroma, mongo, context, uuids, chats, req, ing, call, rag>>

\* invalidate_cache(user_id): redis.delete, a Redis error is logged only
invalidate_cache(u) ==
  /\ ops.invalidates < MaxInvalidates
  /\ \E redisOk \in BOOLEAN :
       /\ redis' = IF redisOk THEN [redis EXCEPT ![u] = NoEntry] ELSE redis
       /\ ops' = [ops EXCEPT !.invalidates = @ + 1, !.invalidated[u] = TRUE,
                              !.deletes[u] = IF redisOk THEN @ + 1 ELSE @,
                              !.held[u] = IF redisOk THEN ops.deletes[u] + 1 ELSE @]
  /\ UNCHANGED <<now, chroma, mongo, context, uuids, chats, req, ing, gets, call, rag>>

(***************************************************************************)
(* The system                                                              *)
(***************************************************************************)
\* the collection a process finds: empty (get_or_create_collection) or the
\* generation of an earlier completed run
Init ==
  /\ now = 0
  /\ redis = [u \in Users |-> NoEntry]
  /\ chroma \in {[exists |-> TRUE, docs |-> <<>>],
                 [exists |-> TRUE, docs |-> Generation([exists |-> TRUE, files |-> <<Book1>>])]}
  /\ mongo = <<>>
  /\ context \in Contexts
  /\ uuids = 0
  /\ chats = 0
  /\ req = IdleReq
  /\ ing = IdleIngest @@ [runs |-> 0]
  /\ gets = [c \in Callers |-> IdleGet]
  /\ ops = NoOps
  /\ call = NoCall
  /\ rag = ServiceReady

Next ==
  \/ \E u \in Users, q \in Questions, c \in {0} \cup ProvidedConversations :
       ChatStart(u, q, c)
  \/ SaveUserMessage
  \/ Embedding
  \/ Retrieving
  \/ ProfileLoading
  \/ ProfileFetch
  \/ ProfileCache
  \/ ContextLoading
  \/ Assembling
  \/ Generating
  \/ SaveAssistantMessage

Spec == Init /\ [][Next]_vars

\* the steps of the query of the request
QuerySteps ==
  \/ Embedding
  \/ Retrieving
  \/ ProfileLoading
  \/ ProfileFetch
  \/ ProfileCache
  \/ ContextLoading
  \/ Assembling
  \/ Generating

\* the request beside another query that is in its profile step for the same
\* user and may stop anywhere in it
NextLive ==
  \/ ChatStart("u1", "how to save", 1)
  \/ SaveUserMessage
  \/ QuerySteps
  \/ SaveAssistantMessage
  \/ GetStart(1, "u1")
  \/ GetLookup(1)
  \/ GetFetch(1)
  \/ GetStore(1)

\* the books ingested and the context file loaded; the request observed is
\* the last one within the bound on requests
InitLive ==
  /\ now = 0
  /\ redis = [u \in Users |-> NoEntry]
  /\ chroma = [exists |-> TRUE, docs |-> Generation([exists |-> TRUE, files |-> <<Book1>>])]
  /\ mongo = <<>>
  /\ context = GoodContext
  /\ uuids = 0
  /\ chats = MaxChats - 1
  /\ req = IdleReq
  /\ ing = IdleIngest @@ [runs |-> 0]
  /\ gets = [c \in Callers |-> IdleGet]
  /\ ops = NoOps
  /\ call = NoCall
  /\ rag = ServiceReady

\* every external call of the request's query returns, fails or times out:
\* the step that waits for it is taken
SpecLive == InitLive /\ [][NextLive]_vars /\ WF_vars(QuerySteps)

\* the same with the clock running, for a well-formed question in a given
\* conversation
NextClock ==
  \/ \E u \in Users : ChatStart(u, "how to save", 1)
  \/ SaveUserMessage
  \/ Embedding
  \/ Retrieving
  \/ ProfileLoading
  \/ ProfileFetch
  \/ ProfileCache
  \/ ContextLoading
  \/ Assembling
  \/ Generating
  \/ SaveAssistantMessage
  \/ Tick

\* the cache does not depend on the context file nor on the index: both are
\* fixed here
InitClock ==
  /\ Init
  /\ context = GoodContext
  /\ chroma.docs = <<>>

SpecClock == InitClock /\ [][NextClock]_vars

\* the ingestion script running beside the service, whose requests are
\* followed up to their index query
NextIndex ==
  \/ \E dir \in BooksDirs : IngestStart(dir)
  \/ IngestDelete
  \/ IngestCreate
  \/ IngestScan
  \/ IngestEmbed
  \/ IngestAdd
  \/ \E u \in Users : ChatStart(u, "how to save", 1)
  \/ SaveUserMessage
  \/ Embedding
  \/ Retrieving

SpecIndex == Init /\ [][NextIndex]_vars

\* the profile cache under concurrent callers, with the clock running
NextCache ==
  \/ \E c \in Callers, u \in Users : GetStart(c, u)
  \/ \E c \in Callers : GetLookup(c)
  \/ \E c \in Callers : GetFetch(c)
  \/ \E c \in Callers : GetStore(c)
  \/ Tick

\* the cache as the callers find it: empty, or holding the profile an earlier
\* get stored for u1
InitCache ==
  /\ now = 0
  /\ redis \in {[u \in Users |-> NoEntry],
                [u \in Users |-> IF u = "u1"
                                 THEN [set |-> TRUE, value |-> JsonDumps(FullProfile(u)),
                                       expires |-> cache_ttl]
                                 ELSE NoEntry]}
  /\ chroma = [exists |-> TRUE, docs |-> <<>>]
  /\ mongo = <<>>
  /\ context = GoodContext
  /\ uuids = 0
  /\ chats = 0
  /\ req = IdleReq
  /\ ing = IdleIngest @@ [runs |-> 0]
  /\ gets = [c \in Callers |-> IdleGet]
  /\ ops = NoOps
  /\ call = NoCall
  /\ rag = ServiceReady

SpecCache == InitCache /\ [][NextCache]_vars

\* the same with invalidate_cache called beside the gets
NextInvalidate ==
  \/ \E c \in Callers, u \in Users : GetStart(c, u)
  \/ \E c \in Callers : GetLookup(c)
  \/ \E c \in Callers : GetFetch(c)
  \/ \E c \in Callers : GetStore(c)
  \/ \E u \in Users : invalidate_cache(u)
  \/ Tick

SpecInvalidate == InitCache /\ [][NextInvalidate]_vars

\* the functions of the service called on their own
(***************************************************************************)
(* UserProfile (profile_models.py) and _construct_prompt called on their   *)
(* own                                                                     *)
(***************************************************************************)
\* the named fields of Income, FixedExpenses and VariableExpenses
IncomeFields == {"salary", "freelance", "other"}
FixedFields == {"rent", "utilities", "insurance", "subscriptions", "loan_payments", "other"}
VariableFields == {"food", "transportation", "entertainment", "shopping", "healthcare", "other"}

\* a sub-model validates: an object whose named fields are numbers >= 0
ValidAmounts(v, names) ==
  /\ v.type = "object"
  /\ \A k \in DOMAIN v.fields \cap names : v.fields[k].type = "number" /\ v.fields[k].n >= 0

\* UserProfile(**data): the required fields are there and validate
UserProfile(data) ==
  IF /\ {"userId", "monthlyIncome", "fixedExpenses", "variableExpenses"} \subseteq DOMAIN data.fields
     /\ ValidAmounts(data.fields["monthlyIncome"], IncomeFields)
     /\ ValidAmounts(data.fields["fixedExpenses"], FixedFields)
     /\ ValidAmounts(data.fields["variableExpenses"], VariableFields)
  THEN Return(data)
  ELSE Raise("ValidationError")

\* the sum of the named fields of a sub-model, 0 for an absent one
SumFields(v, names) ==
  LET ks == SetToSeq(names) IN SumSeq([i \in 1..Len(ks) |-> Get(v, ks[i], JNum(0)).n])

get_total_income(self) == SumFields(self.fields["monthlyIncome"], IncomeFields)
get_total_expenses(self) ==
  SumFields(self.fields["fixedExpenses"], FixedFields)
  + SumFields(self.fields["variableExpenses"], VariableFields)

\* get_savings_rate: the quotient is kept as a fraction num / den
get_savings_rate(self) ==
  LET income == get_total_income(self) IN
  IF income = 0 THEN [num |-> 0, den |-> 1]
  ELSE [num |-> (income - get_total_expenses(self)) * 100, den |-> income]

\* a profile as the finance service stores it
MoneyProfile(u, salary, freelance, rent, food) ==
  JObj([userId |-> JStr(u),
        monthlyIncome |-> JObj([salary |-> JNum(salary), freelance |-> JNum(freelance)]),
        fixedExpenses |-> JObj([rent |-> JNum(rent)]),
        variableExpenses |-> JObj([food |-> JNum(food)])])

\* the arguments of the calls: income and expenses are the totals the profile
\* was made from
PromptInputs ==
  {[profile |-> MoneyProfile("u1", s, f, r, d), income |-> s + f, expenses |-> r + d, money |-> TRUE] :
     s \in {0, 3000, 9000}, f \in {0, 1}, r \in {0, 8200}, d \in {0, 1000}}
  \cup {[profile |-> p, income |-> 0, expenses |-> 0, money |-> FALSE] :
          p \in {BareProfile("u1"), NullIncomeProfile("u1"), Placeholder("u1")}}

PromptPassages == {<<>>, Prefix(Generation([exists |-> TRUE, files |-> <<Book1>>]), top_k)}

PromptCalls ==
  {[fn |-> "_construct_prompt", user_question |-> q, input |-> i, passages |-> ps,
    moroccan_context |-> get_formatted_context(ctx).val,
    results |-> <<>>, rate |-> Pending] :
     q \in Questions, i \in PromptInputs, ps \in PromptPassages,
     ctx \in {EmptyContext, GoodContext}}

\* one more call of _construct_prompt with the arguments of `call`
PromptCall ==
  /\ call.fn = "_construct_prompt"
  /\ Len(call.results) < MaxPromptCalls
  /\ call' = [call EXCEPT !.results =
       Append(@, [at |-> now,
                  out |-> _construct_prompt(call.user_question, call.input.profile,
                             [i \in 1..Len(call.passages) |-> call.passages[i].document],
                             [i \in 1..Len(call.passages) |-> call.passages[i].metadata],
                             call.moroccan_context)])]
  /\ UNCHANGED <<now, redis, chroma, mongo, context, uuids, chats, req, ing, gets, ops, rag>>

\* UserProfile(**profile).get_savings_rate()
SavingsRateCall ==
  /\ call.fn = "_construct_prompt"
  /\ call.rate = Pending
  /\ LET self == UserProfile(call.input.profile) IN
     call' = [call EXCEPT !.rate = IF self.exc # "None" THEN Raise(self.exc)
                                   ELSE Return(get_savings_rate(self.val))]
  /\ UNCHANGED <<now, redis, chroma, mongo, context, uuids, chats, req, ing, gets, ops, rag>>

InitPrompt ==
  /\ now = 0
  /\ redis = [u \in Users |-> NoEntry]
  /\ chroma = [exists |-> TRUE, docs |-> <<>>]
  /\ mongo = <<>>
  /\ context = GoodContext
  /\ uuids = 0
  /\ chats = 0
  /\ req = IdleReq
  /\ ing = IdleIngest @@ [runs |-> 0]
  /\ gets = [c \in Callers |-> IdleGet]
  /\ ops = NoOps
  /\ call \in PromptCalls
  /\ rag = ServiceReady

NextPrompt ==
  \/ PromptCall
  \/ SavingsRateCall
  \/ Tick

SpecPrompt == InitPrompt /\ [][NextPrompt]_vars

(***************************************************************************)
(* ContextService.__init__, then requests                                  *)
(***************************************************************************)
ContextCalls == [fn : {"ContextService"}, file : ContextFiles, constructed : {FALSE}]

\* get_context_service: self.context = self._load_context()
ContextInit ==
  /\ call.fn = "ContextService"
  /\ ~call.constructed
  /\ context' = _load_context(call.file)
  /\ call' = [call EXCEPT !.constructed = TRUE]
  /\ UNCHANGED <<now, redis, chroma, mongo, uuids, chats, req, ing, gets, ops, rag>>

InitContext ==
  /\ now = 0
  /\ redis = [u \in Users |-> NoEntry]
  /\ chroma = [exists |-> TRUE, docs |-> <<>>]
  /\ mongo = <<>>
  /\ context = JNull
  /\ uuids = 0
  /\ chats = 0
  /\ req = IdleReq
  /\ ing = IdleIngest @@ [runs |-> 0]
  /\ gets = [c \in Callers |-> IdleGet]
  /\ ops = NoOps
  /\ call \in ContextCalls
  /\ rag = ServiceReady

NextContext ==
  \/ ContextInit
  \/ \E u \in Users : call.constructed /\ ChatStart(u, "how to save", 1)
  \/ SaveUserMessage
  \/ Embedding
  \/ Retrieving
  \/ ProfileLoading
  \/ ProfileFetch
  \/ ProfileCache
  \/ ContextLoading
  \/ Assembling
  \/ Generating
  \/ SaveAssistantMessage

SpecContext == InitContext /\ [][NextContext]_vars

(***************************************************************************)
(* ChatHistoryService: appends, then one read                              *)
(***************************************************************************)
HistoryConversations == {1, 2}
HistoryMessage(role) == IF role = "user" THEN "how to save" ELSE "advice"
\* the appends: the messages of u1 in two conversations, and a question of u2
\* under a conversationId that u1 uses too
HistoryAppends ==
  {[user_id |-> "u1", conversation_id |-> c, role |-> role] :
     c \in HistoryConversations, role \in {"user", "assistant"}}
  \cup {[user_id |-> "u2", conversation_id |-> 1, role |-> "user"]}

\* save_message: insert_one of the document stamped with utcnow
save_message(user_id, conversation_id, role) ==
  /\ call = NoCall
  /\ Len(mongo) < MaxMessages
  /\ mongo' = Append(mongo, Document(user_id, conversation_id, role, HistoryMessage(role)))
  /\ UNCHANGED <<now, redis, chroma, context, uuids, chats, req, ing, gets, ops, call, rag>>

\* the positions in the collection of the documents of a user, of one
\* conversation of a user
OfUser(user_id) == {i \in 1..Len(mongo) : mongo[i].userId = user_id}
OfConversation(user_id, conversation_id) ==
  {i \in OfUser(user_id) : mongo[i].conversationId = conversation_id}

\* the orders in which a sort on `key` can deliver the elements of S: the
\* order among equal keys is not defined
Orders(S, key, dir) ==
  {p \in [1..Cardinality(S) -> S] :
     /\ \A i, j \in 1..Cardinality(S) : i # j => p[i] # p[j]
     /\ \A i, j \in 1..Cardinality(S) : i < j => dir * key[p[i]] <= dir * key[p[j]]}

\* the sort keys
Timestamps(S) == [i \in S |-> mongo[i].timestamp]
GroupTimestamps(groups) == [g \in groups |-> g.timestamp]

get_conversation_history_NewestFirst(user_id, conversation_id, limit) ==
  /\ call = NoCall
  /\ \E p \in Orders(OfConversation(user_id, conversation_id),
                      Timestamps(OfConversation(user_id, conversation_id)), -1) :
       call' = [fn |-> "get_conversation_history", user_id |-> user_id,
                conversation_id |-> conversation_id, limit |-> limit,
                result |-> Prefix([k \in 1..Len(p) |-> mongo[p[k]]], limit)]
  /\ UNCHANGED <<now, redis, chroma, mongo, context, uuids, chats, req, ing, gets, ops, rag>>

\* find(query).sort("timestamp", 1).limit(limit)
get_conversation_history(user_id, conversation_id, limit) ==
  /\ call = NoCall
  /\ \E p \in Orders(OfConversation(user_id, conversation_id),
                      Timestamps(OfConversation(user_id, conversation_id)), 1) :
       call' = [fn |-> "get_conversation_history", user_id |-> user_id,
                conversation_id |-> conversation_id, limit |-> limit,
                result |-> Prefix([k \in 1..Len(p) |-> mongo[p[k]]], limit)]
  /\ UNCHANGED <<now, redis, chroma, mongo, context, uuids, chats, req, ing, gets, ops, rag>>

\* GET /api/chat/history/{conversation_id}: the read with the route's limit,
\* each document returned as a ChatMessage
history_route(user_id, conversation_id) ==
  /\ call = NoCall
  /\ \E p \in Orders(OfConversation(user_id, conversation_id),
                      Timestamps(OfConversation(user_id, conversation_id)), 1) :
       LET messages_data == Prefix([k \in 1..Len(p) |-> mongo[p[k]]], RouteLimit) IN
       call' = [fn |-> "history_route", user_id |-> user_id,
                conversation_id |-> conversation_id, limit |-> RouteLimit,
                result |-> [k \in 1..Len(messages_data) |->
                             [role |-> messages_data[k].role,
                              message |-> messages_data[k].message,
                              timestamp |-> messages_data[k].timestamp]]]
  /\ UNCHANGED <<now, redis, chroma, mongo, context, uuids, chats, req, ing, gets, ops, rag>>

\* $group after $sort: one entry per conversationId, from the first document
\* of the conversation in the sorted order p
Grouped(p) ==
  {LET first == p[CHOOSE k \in 1..Len(p) :
                    /\ mongo[p[k]].conversationId = c
                    /\ \A l \in 1..(k - 1) : mongo[p[l]].conversationId # c] IN
   [conversationId |-> c, latestMessage |-> mongo[first].message,
    timestamp |-> mongo[first].timestamp, role |-> mongo[first].role] :
     c \in {mongo[p[k]].conversationId : k \in 1..Len(p)}}

get_user_conversations_NoSort(user_id, limit) ==
  /\ call = NoCall
  /\ LET groups == Grouped(SetToSeq(OfUser(user_id))) IN
     \E out \in Orders(groups, GroupTimestamps(groups), -1) :
       call' = [fn |-> "get_user_conversations", user_id |-> user_id,
                conversation_id |-> 0, limit |-> limit, result |-> Prefix(out, limit)]
  /\ UNCHANGED <<now, redis, chroma, mongo, context, uuids, chats, req, ing, gets, ops, rag>>

\* aggregate: $match, $sort timestamp -1, $group with $first, $sort
\* latestTimestamp -1, $limit
get_user_conversations(user_id, limit) ==
  /\ call = NoCall
  /\ \E p \in Orders(OfUser(user_id), Timestamps(OfUser(user_id)), -1) :
       \E out \in Orders(Grouped(p), GroupTimestamps(Grouped(p)), -1) :
         call' = [fn |-> "get_user_conversations", user_id |-> user_id,
                  conversation_id |-> 0, limit |-> limit, result |-> Prefix(out, limit)]
  /\ UNCHANGED <<now, redis, chroma, mongo, context, uuids, chats, req, ing, gets, ops, rag>>

delete_conversation_AllUsers(user_id, conversation_id) ==
  /\ call = NoCall
  /\ LET matches(d) == d.conversationId = conversation_id
         kept == SelectSeq(mongo, LAMBDA d : ~matches(d)) IN
     /\ mongo' = kept
     /\ call' = [fn |-> "delete_conversation", user_id |-> user_id,
                 conversation_id |-> conversation_id, limit |-> 0,
                 result |-> Len(mongo) - Len(kept)]
  /\ UNCHANGED <<now, redis, chroma, context, uuids, chats, req, ing, gets, ops, rag>>

\* delete_many({"userId": user_id, "conversationId": conversation_id}),
\* returning deleted_count
delete_conversation(user_id, conversation_id) ==
  /\ call = NoCall
  /\ LET matches(d) == d.userId = user_id /\ d.conversationId = conversation_id
         kept == SelectSeq(mongo, LAMBDA d : ~matches(d)) IN
     /\ mongo' = kept
     /\ call' = [fn |-> "delete_conversation", user_id |-> user_id,
                 conversation_id |-> conversation_id, limit |-> 0,
                 result |-> Len(mongo) - Len(kept)]
  /\ UNCHANGED <<now, redis, chroma, context, uuids, chats, req, ing, gets, ops, rag>>

InitHistory ==
  /\ now = 0
  /\ redis = [u \in Users |-> NoEntry]
  /\ chroma = [exists |-> TRUE, docs |-> <<>>]
  /\ mongo = <<>>
  /\ context = GoodContext
  /\ uuids = 0
  /\ chats = 0
  /\ req = IdleReq
  /\ ing = IdleIngest @@ [runs |-> 0]
  /\ gets = [c \in Callers |-> IdleGet]
  /\ ops = NoOps
  /\ call = NoCall
  /\ rag = ServiceReady

NextHistory ==
  \/ \E a \in HistoryAppends : save_message(a.user_id, a.conversation_id, a.role)
  \/ \E c \in HistoryConversations, limit \in 1..MaxLimit :
       get_conversation_history("u1", c, limit)
  \/ \E limit \in 1..MaxLimit : get_user_conversations("u1", limit)
  \/ \E c \in HistoryConversations : history_route("u1", c)
  \/ call = NoCall /\ Tick

SpecHistory == InitHistory /\ [][NextHistory]_vars

\* two users under the same conversationIds: u1 stores questions, u2 stores
\* answers, so that a message tells whose it is
OwnerAppends ==
  {[user_id |-> "u1", conversation_id |-> c, role |-> "user"] : c \in HistoryConversations}
  \cup {[user_id |-> "u2", conversation_id |-> c, role |-> "assistant"] :
          c \in HistoryConversations}

NextOwner ==
  \/ \E a \in OwnerAppends : save_message(a.user_id, a.conversation_id, a.role)
  \/ \E u \in Users, c \in HistoryConversations : get_conversation_history(u, c, MaxLimit)
  \/ \E u \in Users : get_user_conversations(u, MaxLimit)
  \/ \E u \in Users, c \in HistoryConversations : delete_conversation(u, c)
  \/ call = NoCall /\ Tick

SpecOwner == InitHistory /\ [][NextOwner]_vars

(***************************************************************************)
(* LLMService.generate_streaming_response and its consumer                 *)
(***************************************************************************)
\* a line of the streamed body: a JSON object with a "response" fragment, an
\* empty line, a JSON object without "response", or a line that is not JSON
StreamLines ==
  {[kind |-> "fragment", text |-> t] : t \in {"a", "b"}}
  \cup {[kind |-> k, text |-> ""] : k \in {"blank", "nokey", "invalid"}}

\* the generator object just created: nothing runs before the first pull
StreamCalls ==
  [fn : {"generate_streaming_response"},
   lines : UNION {[1..k -> StreamLines] : k \in 0..MaxLines},
   gen : {"created"}, pos : {0}, delivered : {<<>>}, connection : {"none"},
   consumer : {"iterating"}, finalizer : {FALSE}]

\* the body has left the two `async with` blocks, by its end or by an
\* exception: the response and the client are closed
StreamLeaves(gen) == [call EXCEPT !.gen = gen, !.connection = "released"]

\* the first pull: client.stream("POST", ...) and raise_for_status
StreamOpen ==
  /\ call.fn = "generate_streaming_response"
  /\ call.gen = "created"
  /\ call.consumer = "iterating"
  /\ \E postOk \in BOOLEAN :
       call' = IF postOk THEN [call EXCEPT !.gen = "awaiting", !.connection = "open"]
               ELSE StreamLeaves("raised")
  /\ UNCHANGED <<now, redis, chroma, mongo, context, uuids, chats, req, ing, gets, ops, rag>>

\* the consumer is waiting for a fragment and aiter_lines delivers the next
\* line, the end of the body, or an error
StreamRead ==
  /\ call.fn = "generate_streaming_response"
  /\ call.gen \in {"awaiting", "suspended"}
  /\ call.consumer = "iterating"
  /\ \E readOk \in BOOLEAN :
       call' = IF ~readOk THEN StreamLeaves("raised")
               ELSE IF call.pos = Len(call.lines) THEN StreamLeaves("finished")
               ELSE LET line == call.lines[call.pos + 1] IN
                    IF line.kind = "invalid" THEN StreamLeaves("raised")
                    ELSE IF line.kind = "fragment"
                    THEN [call EXCEPT !.gen = "suspended", !.pos = @ + 1,
                                      !.delivered = Append(@, line.text)]
                    ELSE [call EXCEPT !.gen = "awaiting", !.pos = @ + 1]
  /\ UNCHANGED <<now, redis, chroma, mongo, context, uuids, chats, req, ing, gets, ops, rag>>

StreamCancel_LeavesOpen(mode) ==
  /\ call.fn = "generate_streaming_response"
  /\ call.consumer = "iterating"
  /\ call.gen \in {"awaiting", "suspended"}
  /\ mode = "task_cancel" => call.gen = "awaiting"
  /\ mode \in {"aclose", "dropped"} => call.gen = "suspended"
  /\ call' = [call EXCEPT !.consumer = "cancelled"]
  /\ UNCHANGED <<now, redis, chroma, mongo, context, uuids, chats, req, ing, gets, ops, rag>>

\* the consumer cancels mid-stream: its task is cancelled while the generator
\* awaits a line (CancelledError is no Exception: the handler lets it pass and
\* the `async with` blocks exit); or it calls aclose() on the generator
\* suspended at the yield (GeneratorExit, the same way out); or it leaves its
\* loop and drops the generator, which the event loop's hook closes later
StreamCancel(mode) ==
  /\ call.fn = "generate_streaming_response"
  /\ call.consumer = "iterating"
  /\ call.gen \in {"awaiting", "suspended"}
  /\ mode = "task_cancel" => call.gen = "awaiting"
  /\ mode \in {"aclose", "dropped"} => call.gen = "suspended"
  /\ call' = IF mode = "dropped"
             THEN [call EXCEPT !.consumer = "cancelled", !.finalizer = TRUE]
             ELSE [StreamLeaves("closed") EXCEPT !.consumer = "cancelled"]
  /\ UNCHANGED <<now, redis, chroma, mongo, context, uuids, chats, req, ing, gets, ops, rag>>

\* the event loop runs aclose() on the dropped generator
StreamFinalize ==
  /\ call.fn = "generate_streaming_response"
  /\ call.finalizer
  /\ call' = [StreamLeaves("closed") EXCEPT !.finalizer = FALSE]
  /\ UNCHANGED <<now, redis, chroma, mongo, context, uuids, chats, req, ing, gets, ops, rag>>

InitStream ==
  /\ now = 0
  /\ redis = [u \in Users |-> NoEntry]
  /\ chroma = [exists |-> TRUE, docs |-> <<>>]
  /\ mongo = <<>>
  /\ context = GoodContext
  /\ uuids = 0
  /\ chats = 0
  /\ req = IdleReq
  /\ ing = IdleIngest @@ [runs |-> 0]
  /\ gets = [c \in Callers |-> IdleGet]
  /\ ops = NoOps
  /\ call \in StreamCalls
  /\ rag = ServiceReady

NextStream ==
  \/ StreamOpen
  \/ StreamRead
  \/ \E mode \in {"task_cancel", "aclose", "dropped"} : StreamCancel(mode)
  \/ StreamFinalize

\* the event loop keeps running: a scheduled aclose() is run
SpecStream == InitStream /\ [][NextStream]_vars /\ WF_vars(StreamFinalize)

(***************************************************************************)
(* utils/dependencies.py: the service singletons of one process            *)
(***************************************************************************)
Services == {"embedding", "llm", "context", "redis", "profile", "chat_history", "rag"}
Requests == 1..MaxRequests

\* global[s]: the module global of service s, 0 for None and otherwise the
\* number of the instance; built[s]: the instances of s constructed so far
NoSingletons == [global |-> [s \in Services |-> 0], built |-> [s \in Services |-> 0]]

\* `if _x is None: _x = X(...)` run without interruption
Singleton(st, s) ==
  IF st.global[s] # 0 THEN st
  ELSE [global |-> [st.global EXCEPT ![s] = st.built[s] + 1],
        built |-> [st.built EXCEPT ![s] = @ + 1]]

\* get_profile_service: the Redis client is looked up only when the
\* profile service is still None
ProfileSingleton(st) ==
  IF st.global["profile"] # 0 THEN st ELSE Singleton(Singleton(st, "redis"), "profile")

IdleDep == [pc |-> "none", route |-> "none", rag |-> 0, history |-> 0]

\* a request arrives and FastAPI starts to resolve the route's dependencies
DepArrive(r, route) ==
  /\ call.fn = "dependencies"
  /\ call.reqs[r].pc = "none"
  /\ \A q \in Requests : q < r => call.reqs[q].pc # "none"
  /\ call' = [call EXCEPT !.reqs[r] =
                 [IdleDep EXCEPT !.route = route,
                                 !.pc = IF route = "chat" THEN "get_rag_service"
                                        ELSE "get_chat_history_service"]]
  /\ UNCHANGED <<now, redis, chroma, mongo, context, uuids, chats, req, ing, gets, ops, rag>>

\* get_rag_service, a coroutine run on the event loop: none of its awaits
\* suspends, so it runs from the test to the assignment without another
\* request in between; a constructor that raises leaves its global None
get_rag_service(r) ==
  /\ call.fn = "dependencies"
  /\ call.reqs[r].pc = "get_rag_service"
  /\ \E failAt \in {"none", "embedding", "rag"} :
       LET st0 == [global |-> call.global, built |-> call.built]
           st1 == Singleton(st0, "embedding")
           st2 == Singleton(st1, "llm")
           st3 == Singleton(st2, "context")
           st4 == ProfileSingleton(st3)
           st5 == Singleton(st4, "rag")
           after == IF st0.global["rag"] # 0 THEN st0
                    ELSE IF failAt = "embedding" /\ st0.global["embedding"] = 0 THEN st0
                    ELSE IF failAt = "rag" THEN st4
                    ELSE st5 IN
       call' = [call EXCEPT
                  !.global = after.global, !.built = after.built,
                  !.reqs[r] = IF after.global["rag"] = 0 THEN [@ EXCEPT !.pc = "failed"]
                              ELSE [@ EXCEPT !.pc = "get_chat_history_service",
                                             !.rag = after.global["rag"]]]
  /\ UNCHANGED <<now, redis, chroma, mongo, context, uuids, chats, req, ing, gets, ops, rag>>

\* get_chat_history_service, a plain function, which FastAPI runs in a worker
\* thread of its pool: the test `_chat_history_service is None`
history_check(r) ==
  /\ call.fn = "dependencies"
  /\ call.reqs[r].pc = "get_chat_history_service"
  /\ call' = IF call.global["chat_history"] # 0
             THEN [call EXCEPT !.reqs[r] = [@ EXCEPT !.pc = "resolved",
                                                     !.history = call.global["chat_history"]]]
             ELSE [call EXCEPT !.reqs[r] = [@ EXCEPT !.pc = "construct"]]
  /\ UNCHANGED <<now, redis, chroma, mongo, context, uuids, chats, req, ing, gets, ops, rag>>

\* the same thread later: ChatHistoryService(...) is constructed, assigned to
\* the global and returned
history_construct(r) ==
  /\ call.fn = "dependencies"
  /\ call.reqs[r].pc = "construct"
  /\ LET instance == call.built["chat_history"] + 1 IN
     call' = [call EXCEPT !.built["chat_history"] = instance,
                          !.global["chat_history"] = instance,
                          !.reqs[r] = [@ EXCEPT !.pc = "resolved", !.history = instance]]
  /\ UNCHANGED <<now, redis, chroma, mongo, context, uuids, chats, req, ing, gets, ops, rag>>

InitDependencies ==
  /\ now = 0
  /\ redis = [u \in Users |-> NoEntry]
  /\ chroma = [exists |-> TRUE, docs |-> <<>>]
  /\ mongo = <<>>
  /\ context = GoodContext
  /\ uuids = 0
  /\ chats = 0
  /\ req = IdleReq
  /\ ing = IdleIngest @@ [runs |-> 0]
  /\ gets = [c \in Callers |-> IdleGet]
  /\ ops = NoOps
  /\ call = [fn |-> "dependencies", global |-> NoSingletons.global,
             built |-> NoSingletons.built, reqs |-> [r \in Requests |-> IdleDep]]
  /\ rag = ServiceReady

NextDependencies ==
  \/ \E r \in Requests, route \in {"chat", "history"} : DepArrive(r, route)
  \/ \E r \in Requests : get_rag_service(r)
  \/ \E r \in Requests : history_check(r)
  \/ \E r \in Requests : history_construct(r)

SpecDependencies == InitDependencies /\ [][NextDependencies]_vars

\* get_rag_service: the RAGService is constructed for the first request that
\* finds no instance; a construction that raises leaves none, and the next
\* request constructs again. RAGService.__init__ opens the collection with
\* get_or_create_collection and looks at nothing else.
Construct ==
  /\ rag.state \in {"unconstructed", "failed"}
  /\ \E dbOk \in BOOLEAN :
       IF dbOk
       THEN /\ chroma' = [chroma EXCEPT !.exists = TRUE]
            /\ rag' = [rag EXCEPT !.state = "ready"]
       ELSE /\ chroma' = chroma
            /\ rag' = [rag EXCEPT !.state = "failed"]
  /\ UNCHANGED <<now, redis, mongo, context, uuids, chats, req, ing, gets, ops, call>>

\* the service starts over a persistent directory that holds no collection, an
\* empty one, or one the ingestion script filled; EMBEDDING_MODEL selects the
\* model of the service
InitOpen ==
  /\ now = 0
  /\ redis = [u \in Users |-> NoEntry]
  /\ chroma \in {[exists |-> FALSE, docs |-> <<>>],
                 [exists |-> TRUE, docs |-> <<>>],
                 [exists |-> TRUE, docs |-> Generation([exists |-> TRUE, files |-> <<Book1>>])]}
  /\ mongo = <<>>
  /\ context = GoodContext
  /\ uuids = 0
  /\ chats = 0
  /\ req = IdleReq
  /\ ing = IdleIngest @@ [runs |-> 0]
  /\ gets = [c \in Callers |-> IdleGet]
  /\ ops = NoOps
  /\ call = NoCall
  /\ rag \in [state : {"unconstructed"}, dimension : {MiniLmDimension, MpnetDimension}]

NextOpen ==
  \/ Construct
  \/ \E u \in Users : rag.state = "ready" /\ ChatStart(u, "how to save", 1)
  \/ SaveUserMessage
  \/ Embedding
  \/ Retrieving
  \/ ProfileLoading
  \/ ProfileFetch
  \/ ProfileCache
  \/ ContextLoading
  \/ Assembling
  \/ Generating
  \/ SaveAssistantMessage

SpecOpen == InitOpen /\ [][NextOpen]_vars

InitCalls ==
  /\ now = 0
  /\ redis = [u \in Users |-> NoEntry]
  /\ chroma = [exists |-> TRUE, docs |-> <<>>]
  /\ mongo = <<>>
  /\ context = GoodContext
  /\ uuids = 0
  /\ chats = 0
  /\ req = IdleReq
  /\ ing = IdleIngest @@ [runs |-> 0]
  /\ gets = [c \in Callers |-> IdleGet]
  /\ ops = NoOps
  /\ call \in ChunkCalls \cup BatchCalls
  /\ rag = ServiceReady

NextCalls ==
  \/ ChunkCall
  \/ BatchCall

SpecCalls == InitCalls /\ [][NextCalls]_vars

(***************************************************************************)
(* Properties                                                              *)
(***************************************************************************)
QueryOver == req.query \in {"Done", "Failed", "ProfileNotFound"}
LastMessage == mongo[Len(mongo)]

\* C1: when the Finance Service answers 404 for the user, query raises
\* ProfileNotFoundException to its caller, substitutes no placeholder profile
\* and does not call the LLM.
C1_ProfileNotFoundRaised ==
  req.profile_result = "ProfileNotFoundException" =>
    /\ req.query = "ProfileNotFound"
    /\ req.raised = "ProfileNotFoundException"
    /\ req.user_profile = JNull
    /\ req.calls.llm = 0

\* C2: whenever POST /api/chat answers a user who has no profile, the answer is
\* the fixed onboarding message, and that message is the stored assistant
\* message.
C2_OnboardingMessageAnswered ==
  (req.profile_result = "ProfileNotFoundException" /\ req.pc = "responded"
     /\ req.status = 200) =>
    /\ req.answer = ONBOARDING_MESSAGE
    /\ LastMessage.role = "assistant"
    /\ LastMessage.message = ONBOARDING_MESSAGE

\* C3: a failed history append never fails the chat request: the pipeline is
\* still run, and when it produced an answer that answer is returned with 200.
C3_AppendFailureNeverFailsRequest ==
  (req.append_errors > 0 /\ req.pc = "responded") =>
    /\ req.query # "none"
    /\ (req.query = "Done" => req.status = 200 /\ req.answer = req.response)

\* C4: an index query made while an ingestion run is in progress finds the
\* collection present and holding either the whole prior generation or the
\* whole new one.
C4_QueriesSeeWholeGeneration ==
  req.seen.during =>
    /\ req.seen.exists
    /\ (req.seen.docs = req.seen.prior \/ req.seen.docs = Generation(req.seen.dir))

\* C5 as claimed: a query ends in Failed only from the Embedding or the
\* Generating step.
C5_FailedOnlyFromEmbeddingOrGenerating ==
  req.query = "Failed" => req.failedAt \in {"Embedding", "Generating"}

\* C5 as amended: a query ends in Failed only from the Embedding,
\* ContextLoading, Assembling or Generating step; a failure of the index query
\* or of the profile fetch never ends the query in Failed.
C5_FailedOnlyFromFatalSteps ==
  /\ req.query = "Failed" =>
       req.failedAt \in {"Embedding", "ContextLoading", "Assembling", "Generating"}
  /\ req.failedAt # "none" => req.query = "Failed"

C5_Witness ==
  /\ req.query = "Failed"
  /\ req.failedAt = "Assembling"
  /\ req.retrieval = "failed"

C8_EmbeddingFailureIsFatal ==
  /\ req.failedAt = "Embedding" =>
       /\ req.query = "Failed"
       /\ req.calls.index = 0
       /\ req.calls.source = 0
       /\ req.calls.llm = 0
       /\ req.retrieval = "none"
       /\ req.profile_result = "none"
  /\ (req.question \in WhitespaceOnly /\ req.calls.embedder > 0) =>
       req.failedAt = "Embedding"

C8_Witness ==
  /\ req.question \in WhitespaceOnly
  /\ req.failedAt = "Embedding"
  /\ req.pc = "responded"

\* C9: in one query the embedder, the index, the profile source and the LLM
\* are each called at most once.
C9_NothingRetried ==
  /\ req.calls.embedder <= 1
  /\ req.calls.index <= 1
  /\ req.calls.source <= 1
  /\ req.calls.llm <= 1

C9_Witness ==
  /\ req.query = "Failed"
  /\ req.failedAt = "Generating"
  /\ req.retrieval = "failed"
  /\ req.profile_result = "ProfileFetchException"
  /\ req.calls = [embedder |-> 1, index |-> 1, source |-> 1, llm |-> 1]

\* C10: a lookup that hits the cache happens before the entry's TTL has run
\* out, hands back the profile stored for that user and sends no request to
\* the Finance Service.
C10_CacheHitSkipsSource ==
  req.profile_result = "hit" =>
    /\ req.calls.source = 0
    /\ req.pc \notin {"ProfileFetch", "ProfileCache"}
    /\ redis[req.user_id].set
    /\ req.lookup_at < redis[req.user_id].expires
    /\ req.user_profile = redis[req.user_id].value.json
    /\ req.user_profile \in Payloads(req.user_id)

C10_Witness ==
  /\ req.profile_result = "hit"
  /\ req.query = "Done"
  /\ now > 0

\* C11: a get is served from the cache only while the entry's TTL has not run
\* out; a get that finds an entry whose TTL has elapsed goes to the Finance
\* Service exactly as on a miss; every cache write stores the fetched profile
\* with a TTL counted from the moment of the write.
C11_NeverServedPastTtl ==
  /\ [](\A c \in Callers :
          /\ gets[c].result = "hit" => (gets[c].found = "live" /\ gets[c].source = 0)
          /\ gets[c].found = "expired" =>
               /\ gets[c].pc \in {"fetch", "store", "returned"}
               /\ gets[c].result # "hit"
               /\ (gets[c].pc \in {"store", "returned"} => gets[c].source = 1))
  /\ [][\A c \in Callers :
          (gets[c].pc = "store" /\ gets'[c].stored) =>
            redis'[gets[c].user_id] =
              [set |-> TRUE, value |-> [json |-> gets[c].fetched],
               expires |-> now + cache_ttl]]_vars

C11_Witness ==
  \E c \in Callers :
    /\ gets[c].found = "expired"
    /\ gets[c].result = "fetched"
    /\ gets[c].stored
    /\ redis[gets[c].user_id].expires = now + cache_ttl

Failures == {"ProfileNotFoundException", "ProfileFetchException"}

\* C12 as claimed: the get that is started next after a get for the same user
\* failed contacts the Finance Service.
C12_NextGetContactsSource ==
  \A c \in Callers :
    (gets[c].after = "failed" /\ gets[c].pc = "returned") =>
      (gets[c].source = 1 /\ gets[c].result # "hit")

\* C12 as amended: a get that fails writes nothing to the cache and leaves
\* every entry as it was, so the cache only ever holds profiles the Finance
\* Service answered with for that user; the get started next for the same user
\* contacts the Finance Service whenever its lookup finds no live entry.
C12_FailureLeavesCacheAsItWas ==
  /\ [](\A u \in Users : redis[u].set => redis[u].value.json \in Payloads(u))
  /\ [](\A c \in Callers :
          /\ gets[c].result \in Failures =>
               (~gets[c].stored /\ gets[c].value = JNull /\ gets[c].source = 1)
          /\ (gets[c].after = "failed" /\ gets[c].found \in {"absent", "expired"}
                /\ gets[c].pc \in {"store", "returned"}) => gets[c].source = 1)
  /\ [][\A c \in Callers :
          (gets[c].pc = "fetch" /\ gets'[c].result \in Failures) => redis' = redis]_vars

C12_Witness ==
  \E c \in Callers :
    /\ gets[c].after = "failed"
    /\ gets[c].found = "absent"
    /\ gets[c].pc = "returned"
    /\ gets[c].source = 1

\* C13: once invalidate_cache(u) has returned, and until a later get stores a
\* profile for u again, the cache holds no entry for u.
C13_InvalidateRemovesEntry ==
  \A u \in Users : ops.invalidated[u] => ~redis[u].set

\* two gets for one user that both found the key absent and both fetched a
\* profile: they ran concurrently whenever one of them stored
BothMissed(c, d) ==
  /\ c # d
  /\ gets[c].user_id = gets[d].user_id
  /\ gets[c].found = "absent" /\ gets[d].found = "absent"
  /\ gets[c].result = "fetched" /\ gets[d].result = "fetched"

\* C14 as claimed: after two gets for one user that both missed, the cache
\* holds an entry for the user, equal to what one of them fetched.
C14_OneWinnerCached ==
  \A c, d \in Callers :
    BothMissed(c, d) =>
      /\ redis[gets[c].user_id].set
      /\ redis[gets[c].user_id].value.json \in {gets[c].value, gets[d].value}

\* C14 as amended: every caller whose fetch succeeds receives the profile it
\* fetched for that user; a cache write that succeeds replaces the one entry
\* of that user and touches no other key, a write that fails leaves the cache
\* as it was; so after two gets that both missed the cache holds what one of
\* the successful writers fetched, and nothing when both writes failed.
C14_WritesOverwrite ==
  /\ [](\A c \in Callers :
          gets[c].result = "fetched" =>
            (gets[c].source = 1 /\ gets[c].value \in Payloads(gets[c].user_id)))
  /\ [](\A c, d \in Callers :
          BothMissed(c, d) =>
            IF gets[c].stored \/ gets[d].stored
            THEN /\ redis[gets[c].user_id].set
                 /\ redis[gets[c].user_id].value.json \in
                      {gets[e].value : e \in {x \in {c, d} : gets[x].stored}}
            ELSE ~redis[gets[c].user_id].set)
  /\ [][\A c \in Callers :
          (gets[c].pc = "store" /\ gets'[c].pc = "returned") =>
            redis' = IF gets'[c].stored
                     THEN [redis EXCEPT ![gets[c].user_id] =
                             [set |-> TRUE, value |-> [json |-> gets[c].fetched],
                              expires |-> now + cache_ttl]]
                     ELSE redis]_vars

C14_Witness ==
  \E c, d \in Callers :
    /\ BothMissed(c, d)
    /\ gets[c].stored /\ gets[d].stored
    /\ gets[c].value # gets[d].value
    /\ redis[gets[c].user_id].value.json = gets[d].value

ChunkDone == call.fn = "chunk_text" /\ call.done
ValidChunking == 0 <= call.over /\ call.over < call.size

\* C15: chunk_text raises ConfigError, and returns no chunks, whenever
\* overlap < 0 or overlap >= chunk_size.
C15_InvalidOverlapRejected ==
  (ChunkDone /\ ~ValidChunking) => call.result.exc = "ConfigError"

\* the windows words[k*step : k*step + chunk_size], k = 0, 1, ..., up to the
\* first one that reaches the end of the words
Windows(words, size, over) ==
  LET n == Len(words)
      step == size - over IN
  IF n = 0 THEN <<>>
  ELSE LET last == CHOOSE k \in 0..n :
                     /\ k * step + size >= n
                     /\ \A j \in 0..(k - 1) : j * step + size < n
       IN [i \in 1..(last + 1) |->
             SubSeq(words, (i - 1) * step + 1,
                    IF (i - 1) * step + size < n THEN (i - 1) * step + size ELSE n)]

\* C16: for valid (chunk_size, overlap) chunk_text returns, and returns
\* exactly the windows of step chunk_size - overlap up to the first one that
\* reaches the end: a shorter last window is emitted, no chunk is empty, every
\* word of the text is in some chunk, and a text without words gives no chunk.
C16_ChunksAreTheWindows ==
  (ChunkDone /\ ValidChunking) =>
    LET words == Split(call.text)
        windows == Windows(words, call.size, call.over) IN
    /\ call.result.exc = "None"
    /\ Len(call.result.val) = Len(windows)
    /\ \A i \in 1..Len(windows) :
         /\ Split(call.result.val[i]) = windows[i]
         /\ call.result.val[i] # <<>>
    /\ \A p \in 1..Len(words) :
         \E i \in 1..Len(call.result.val) :
           LET from == (i - 1) * (call.size - call.over) IN
           /\ from < p
           /\ p <= from + Len(Split(call.result.val[i]))
    /\ (\A i \in 1..Len(call.text) : call.text[i] = " ") => call.result.val = <<>>

C16_Witness ==
  /\ ChunkDone
  /\ ValidChunking
  /\ call.over > 0
  /\ call.result.exc = "None"
  /\ Len(call.result.val) >= 2
  /\ Len(Split(call.result.val[Len(call.result.val)])) < call.size

\* C17: for valid (chunk_size, overlap), whenever two consecutive chunks both
\* have chunk_size words, the last `overlap` words of the first are the first
\* `overlap` words of the second.
C17_ConsecutiveChunksOverlap ==
  (ChunkDone /\ ValidChunking /\ call.result.exc = "None") =>
    \A i \in 1..(Len(call.result.val) - 1) :
      LET a == Split(call.result.val[i])
          b == Split(call.result.val[i + 1]) IN
      (Len(a) = call.size /\ Len(b) = call.size) =>
        SubSeq(a, call.size - call.over + 1, call.size) = SubSeq(b, 1, call.over)

C17_Witness ==
  /\ ChunkDone
  /\ ValidChunking
  /\ call.over > 0
  /\ call.result.exc = "None"
  /\ Len(call.result.val) >= 2
  /\ Len(Split(call.result.val[1])) = call.size
  /\ Len(Split(call.result.val[2])) = call.size
  /\ call.result.val[1] # call.result.val[2]

\* C18: for valid (chunk_size, overlap) every chunk has at most chunk_size
\* words.
C18_ChunkAtMostChunkSize ==
  (ChunkDone /\ ValidChunking /\ call.result.exc = "None") =>
    \A i \in 1..Len(call.result.val) : Len(Split(call.result.val[i])) <= call.size

C18_Witness ==
  /\ ChunkDone
  /\ ValidChunking
  /\ call.result.exc = "None"
  /\ Len(Split(call.text)) > call.size
  /\ \E i \in 1..Len(call.result.val) : Len(Split(call.result.val[i])) = call.size

\* C19: generate_embeddings returns one vector per text, and its i-th vector
\* is what generate_embedding returns for the i-th text; when
\* generate_embedding raises for one of the texts, so does generate_embeddings.
C19_BatchMatchesSingle ==
  (call.fn = "generate_embeddings" /\ call.done) =>
    LET single == [i \in 1..Len(call.texts) |->
                     generate_embedding(call.texts[i], call.encodeOk)] IN
    IF \E i \in 1..Len(call.texts) : single[i].exc # "None"
    THEN call.result.exc # "None"
    ELSE /\ call.result.exc = "None"
         /\ Len(call.result.val) = Len(call.texts)
         /\ \A i \in 1..Len(call.texts) : call.result.val[i] = single[i].val

\* the stored vectors have another dimension than the service's embedding model
DimensionMismatch ==
  \E i \in 1..Len(chroma.docs) : chroma.docs[i].embedding.dim # rag.dimension

\* C20: over a collection whose stored vectors have another dimension than the
\* embedding model, the RAGService is never constructed, and no query ends its
\* retrieval step degraded to empty passages.
C20_MismatchFatalAtOpen ==
  DimensionMismatch => (rag.state # "ready" /\ req.retrieval # "failed")

\* the query has been through prompt assembly: it has a prompt or failed there
Assembled == req.prompt # NoPrompt \/ req.failedAt = "Assembling"

C22_UnavailableProfileMarked ==
  (req.profile_result = "ProfileFetchException" /\ req.prompt # NoPrompt) =>
    req.prompt # _construct_prompt(req.question, BareProfile(req.user_id), req.book_chunks,
                                   req.metadatas, req.moroccan_context).val

C24_SavingsRate ==
  (call.fn = "_construct_prompt" /\ call.input.money) =>
    LET income == call.input.income
        expenses == call.input.expenses
    IN
    /\ \A i \in 1..Len(call.results) :
         LET out == call.results[i].out IN
         /\ out.exc = "None"
         /\ out.val.total_income = income
         /\ out.val.total_expenses = expenses
         /\ IF income > 0
            THEN LET d == 10 * 100 * (income - expenses) - out.val.savings_rate * income IN
                 2 * d <= income /\ 2 * (0 - d) <= income
            ELSE out.val.savings_rate = 0
    /\ call.rate # Pending =>
         /\ call.rate.exc = "None"
         /\ IF income > 0
            THEN call.rate.val = [num |-> 100 * (income - expenses), den |-> income]
            ELSE call.rate.val.num = 0

\* income 9000 and expenses 8200: 8.9% in the prompt, 80000/9000 from the model
C24_Witness ==
  /\ call.fn = "_construct_prompt"
  /\ call.input.money
  /\ call.input.income = 9000
  /\ call.input.expenses = 8200
  /\ Len(call.results) > 0
  /\ call.results[1].out.val.savings_rate = 89
  /\ call.rate = Return([num |-> 80000, den |-> 9000])

\* C25: once ContextService is constructed its context is a mapping; it is
\* the empty mapping unless the file holds a JSON object; and over the empty
\* mapping get_formatted_context raises nothing and returns the fallback text,
\* so no query fails in its context step.
C25_ContextAlwaysMapping ==
  (call.fn = "ContextService" /\ call.constructed) =>
    /\ context.type = "object"
    /\ (call.file.kind # "json" \/ call.file.value.type # "object") => context = EmptyDict
    /\ context = EmptyDict =>
         /\ get_formatted_context(context) = Return([fallback |-> TRUE, minimum_wage |-> 0])
         /\ req.failedAt # "ContextLoading"
         /\ req.pc \in {"Assembling", "Generating"} => req.moroccan_context.fallback

\* a query got the fallback text from a service built over a JSON file that
\* holds no object
C25_Witness ==
  /\ call.fn = "ContextService"
  /\ call.constructed
  /\ call.file = [kind |-> "json", value |-> JNull]
  /\ context = EmptyDict
  /\ req.pc = "Generating"
  /\ req.moroccan_context.fallback

\* the passages one returned run over `dir` leaves in an empty index
Once(dir) == IF dir.exists /\ Len(dir.files) > 0 THEN Generation(dir) ELSE <<>>

\* the run has returned (it did not crash)
Returned == ing.pc = "idle" /\ ing.outcome \in {"complete", "no_files", "no_directory"}

PassageSet(docs) == {docs[i] : i \in 1..Len(docs)}

\* C26: a run that starts on the index a run over the same directory left, and
\* returns, leaves the same passages (ids, texts, metadata, vectors) and each
\* of them once.
C26_SecondRunLeavesTheSame ==
  (Returned /\ ing.runs >= 2 /\ ing.prior = Once(ing.dir)) =>
    /\ chroma.exists
    /\ PassageSet(chroma.docs) = PassageSet(ing.prior)
    /\ Cardinality({chroma.docs[i].id : i \in 1..Len(chroma.docs)}) = Len(chroma.docs)
    /\ Len(chroma.docs) = Len(ing.prior)

\* the second run over the books completed on the first run's passages
C26_Witness ==
  /\ Returned
  /\ ing.runs = 2
  /\ ing.outcome = "complete"
  /\ ing.prior = Once(ing.dir)
  /\ Len(chroma.docs) > 1

\* C27: a run that stopped before completing (no directory, no book file, or
\* a failure on the way) leaves the index with the passages it held when the
\* run started.
C27_StoppedRunKeepsPrior ==
  (ing.pc = "idle" /\ ing.outcome \in {"no_directory", "no_files", "crashed"}) =>
    chroma.docs = ing.prior

\* C28: a request whose query failed in the generation step (LLM service
\* error or timeout) is answered with status 503.
C28_GenerationFailureIs503 ==
  (req.pc = "responded" /\ req.failedAt = "Generating") => req.status = 503

\* the latest timestamp among the documents at the positions S
Latest(S) == CHOOSE t \in {mongo[i].timestamp : i \in S} :
               \A i \in S : mongo[i].timestamp <= t

\* C29: get_user_conversations returns at most `limit` entries, no two for the
\* same conversation, each for a conversation of the user and carrying the
\* text, role and timestamp of a message of that conversation that no other
\* is later than; the entries are in descending order of timestamp; every
\* conversation of the user has its entry when there are at most `limit`, and
\* otherwise the conversations left out are not later than those returned.
C29_ListConversations ==
  call.fn = "get_user_conversations" =>
    LET r == call.result
        convs == {mongo[i].conversationId : i \in OfUser(call.user_id)}
        listed == {r[k].conversationId : k \in 1..Len(r)}
    IN
    /\ Len(r) <= call.limit
    /\ Cardinality(listed) = Len(r)
    /\ listed \subseteq convs
    /\ Len(r) = IF Cardinality(convs) < call.limit THEN Cardinality(convs) ELSE call.limit
    /\ \A k \in 1..Len(r) :
         LET S == OfConversation(call.user_id, r[k].conversationId) IN
         /\ r[k].timestamp = Latest(S)
         /\ \E i \in S : /\ mongo[i].timestamp = r[k].timestamp
                         /\ mongo[i].message = r[k].latestMessage
                         /\ mongo[i].role = r[k].role
    /\ \A k, l \in 1..Len(r) : k < l => r[k].timestamp >= r[l].timestamp
    /\ \A c \in convs \ listed : \A k \in 1..Len(r) :
         Latest(OfConversation(call.user_id, c)) <= r[k].timestamp

\* two conversations listed, the first with an answer later than its question
C29_Witness ==
  /\ call.fn = "get_user_conversations"
  /\ Len(call.result) = 2
  /\ call.result[1].timestamp > call.result[2].timestamp
  /\ call.result[1].role = "assistant"
  /\ \E i \in OfConversation(call.user_id, call.result[1].conversationId) :
       mongo[i].timestamp < call.result[1].timestamp

\* C30: get_conversation_history returns at most `limit` messages, all of the
\* conversation (and user) asked for, in ascending order of timestamp: the
\* oldest ones, as many as the limit allows.
C30_ReadOldestFirst ==
  call.fn = "get_conversation_history" =>
    LET r == call.result
        S == OfConversation(call.user_id, call.conversation_id)
    IN
    /\ Len(r) <= call.limit
    /\ Len(r) = IF Cardinality(S) < call.limit THEN Cardinality(S) ELSE call.limit
    /\ \A k \in 1..Len(r) : \E i \in S : mongo[i] = r[k]
    /\ \A k, l \in 1..Len(r) : k < l => r[k].timestamp <= r[l].timestamp
    /\ \A d \in {mongo[i] : i \in S} :
         Cardinality({k \in 1..Len(r) : r[k] = d}) <= Cardinality({i \in S : mongo[i] = d})
    /\ \A i \in S : \A k \in 1..Len(r) :
         mongo[i].timestamp < r[k].timestamp => \E l \in 1..Len(r) : r[l] = mongo[i]

\* a conversation of three messages read with limit 2
C30_Witness ==
  /\ call.fn = "get_conversation_history"
  /\ call.limit = 2
  /\ Cardinality(OfConversation(call.user_id, call.conversation_id)) = 3
  /\ Len(call.result) = 2
  /\ call.result[1].timestamp < call.result[2].timestamp

\* the fragments of the "response" lines among `lines`, in their order
RECURSIVE FragmentsOf(_)
FragmentsOf(lines) ==
  IF lines = <<>> THEN <<>>
  ELSE (IF Head(lines).kind = "fragment" THEN <<Head(lines).text>> ELSE <<>>)
       \o FragmentsOf(Tail(lines))

\* C31: the fragments delivered are those of the lines received so far, in
\* the order received; once the consumer has cancelled, no fragment is
\* delivered any more; and the connection is released, at once when the
\* consumer's task is cancelled or the generator is closed, and eventually
\* when the generator is dropped.
C31_StreamOrderedAndReleased ==
  /\ [](call.fn = "generate_streaming_response" =>
          /\ call.delivered = FragmentsOf(SubSeq(call.lines, 1, call.pos))
          /\ (call.consumer = "cancelled" /\ ~call.finalizer) => call.connection = "released")
  /\ [][(call.fn = "generate_streaming_response" /\ call.consumer = "cancelled") =>
          call'.delivered = call.delivered]_vars
  /\ ((call.fn = "generate_streaming_response" /\ call.consumer = "cancelled")
        ~> (call.connection = "released"))

\* cancelled after the first fragment with another one still to come
C31_Witness ==
  /\ call.fn = "generate_streaming_response"
  /\ call.consumer = "cancelled"
  /\ call.connection = "released"
  /\ Len(call.delivered) = 1
  /\ Len(FragmentsOf(call.lines)) > 1

\* the place of a position of the request in the order of the steps of query
StepRank(pc) ==
  CASE pc = "Embedding" -> 1
    [] pc = "Retrieving" -> 2
    [] pc \in {"ProfileLoading", "ProfileFetch", "ProfileCache"} -> 3
    [] pc = "ContextLoading" -> 4
    [] pc = "Assembling" -> 5
    [] pc = "Generating" -> 6
    [] OTHER -> 7

\* C32: a running query leaves a step only for the next step in the order
\* Embedding, Retrieving, ProfileLoading, ContextLoading, Assembling,
\* Generating, Done, or by failing; it is Done only from Generating; and the
\* LLM is called only with the prompt assembled from the results of the
\* earlier steps.
C32_StepsInOrder ==
  /\ [][(req.query = "running" /\ req'.pc # req.pc) =>
          \/ req'.query \in {"Failed", "ProfileNotFound"}
          \/ req'.query = "Done" /\ req.pc = "Generating"
          \/ req'.query = "running" /\ StepRank(req.pc) = 3 /\ StepRank(req'.pc) = 3
          \/ req'.query = "running" /\ StepRank(req'.pc) = StepRank(req.pc) + 1]_vars
  /\ []((req.pc = "Generating" \/ req.calls.llm > 0) =>
          /\ req.question_embedding # JNull
          /\ req.retrieval # "none"
          /\ req.profile_result # "none"
          /\ req.moroccan_context # JNull
          /\ req.prompt = _construct_prompt(req.question, req.user_profile, req.book_chunks,
                                            req.metadatas, req.moroccan_context).val)
  /\ [](req.calls.llm <= 1)

\* a query that went through every step, the profile fetched from the source
C32_Witness ==
  /\ req.query = "Done"
  /\ req.profile_result = "fetched"
  /\ req.retrieval = "ok"
  /\ req.calls.llm = 1

\* C33: the history route returns the most recent messages of the
\* conversation: the newest message is in the response, also when the
\* conversation holds more messages than the route's limit.
C33_RouteReturnsNewest ==
  (call.fn = "history_route" /\ OfConversation(call.user_id, call.conversation_id) # {}) =>
    \E k \in 1..Len(call.result) :
      call.result[k].timestamp = Latest(OfConversation(call.user_id, call.conversation_id))

\* C34: in the collection a completed ingestion leaves, every passage has
\* chunk_id < chunk_total, the passages of one title carry chunk_total equal to
\* their number and the chunk_ids 0 .. chunk_total - 1 once each, and no two
\* passages have the same id.
C34_PassagesNumbered ==
  (ing.pc = "idle" /\ ing.outcome = "complete") =>
    LET d == chroma.docs
        OfTitle(t) == {i \in 1..Len(d) : d[i].metadata.title = t} IN
    /\ \A i \in 1..Len(d) :
         /\ d[i].metadata.chunk_id >= 0
         /\ d[i].metadata.chunk_id < d[i].metadata.chunk_total
         /\ Cardinality(OfTitle(d[i].metadata.title)) = d[i].metadata.chunk_total
         /\ {d[j].metadata.chunk_id : j \in OfTitle(d[i].metadata.title)}
              = 0..(d[i].metadata.chunk_total - 1)
    /\ \A i, j \in 1..Len(d) : i # j => d[i].id # d[j].id

\* a completed second run over a directory with a book of two passages
C34_Witness ==
  /\ ing.pc = "idle"
  /\ ing.outcome = "complete"
  /\ ing.runs = 2
  /\ \E i \in 1..Len(chroma.docs) :
       chroma.docs[i].metadata.chunk_total = 2 /\ chroma.docs[i].metadata.chunk_id = 1

\* the user message of the request in flight, as save_message stored it
UserMessageAt(i) ==
  /\ i \in 1..Len(mongo)
  /\ mongo[i].userId = req.user_id
  /\ mongo[i].conversationId = req.conversation_id
  /\ mongo[i].role = "user"
  /\ mongo[i].message = req.question

\* C35: the user message is in the history before the pipeline starts; a
\* request that returns an answer has appended, after it, exactly one assistant
\* message holding the answer under the same userId and conversationId, which
\* is the conversationId of the response (a fresh one when none was supplied);
\* a request whose pipeline failed has appended no assistant message and its
\* user message is still there; and no message is ever removed.
C35_MessagesAroundPipeline ==
  /\ [](req.query # "none" =>
          /\ req.saved # <<>> /\ req.saved[1] = "user"
          /\ UserMessageAt(Len(mongo) - (Len(req.saved) - 1)))
  /\ []((req.pc = "responded" /\ req.status = 200) =>
          /\ req.saved = <<"user", "assistant">>
          /\ UserMessageAt(Len(mongo) - 1)
          /\ LastMessage = [userId |-> req.user_id, conversationId |-> req.conversation_id,
                            role |-> "assistant", message |-> req.answer,
                            timestamp |-> LastMessage.timestamp]
          /\ (req.conversation_id \notin ProvidedConversations =>
                \A i \in 1..(Len(mongo) - 2) : mongo[i].conversationId # req.conversation_id))
  /\ []((req.pc = "responded" /\ req.query = "Failed") =>
          /\ req.saved = <<"user">>
          /\ UserMessageAt(Len(mongo)))
  /\ [][Len(mongo') >= Len(mongo) /\ SubSeq(mongo', 1, Len(mongo)) = mongo]_vars

\* the second request answered, in a conversation of its own
C35_Witness ==
  /\ req.pc = "responded"
  /\ req.status = 200
  /\ req.query = "Done"
  /\ req.conversation_id \notin ProvidedConversations
  /\ Len(mongo) > 2

\* a request that failed in the pipeline after an earlier one was answered
C35_WitnessFailed ==
  /\ req.pc = "responded"
  /\ req.query = "Failed"
  /\ Len(mongo) = 3

\* C36: after an invalidate_cache(u) that deleted the key, the cache never
\* holds a profile for u that was fetched from the source before that
\* invalidation, also when a get that missed was in flight meanwhile.
C36_NoProfileFromBeforeInvalidation ==
  \A u \in Users : RedisGet(u) # JNull => ops.held[u] >= ops.deletes[u]

\* how many times the document d is among the documents of `docs`
Copies(docs, d) == Cardinality({i \in 1..Len(docs) : docs[i] = d})

\* C37: get_conversation_history returns only documents stored with the
\* caller's userId (and the conversationId asked for); every entry of
\* get_user_conversations is taken from a message stored with the caller's
\* userId; delete_conversation removes every message stored with the caller's
\* userId and the conversationId, reports their number, and leaves every other
\* message, also those of another user under the same conversationId, as it was.
C37_OnlyOwnMessages ==
  /\ [](call.fn = "get_conversation_history" =>
          \A k \in 1..Len(call.result) :
            /\ call.result[k].userId = call.user_id
            /\ call.result[k].conversationId = call.conversation_id)
  /\ [](call.fn = "get_user_conversations" =>
          \A k \in 1..Len(call.result) :
            \E i \in OfUser(call.user_id) :
              /\ mongo[i].conversationId = call.result[k].conversationId
              /\ mongo[i].message = call.result[k].latestMessage
              /\ mongo[i].role = call.result[k].role
              /\ mongo[i].timestamp = call.result[k].timestamp)
  /\ [][(call = NoCall /\ call'.fn = "delete_conversation") =>
          /\ \A i \in 1..Len(mongo) :
               IF mongo[i].userId = call'.user_id
                  /\ mongo[i].conversationId = call'.conversation_id
               THEN Copies(mongo', mongo[i]) = 0
               ELSE Copies(mongo', mongo[i]) = Copies(mongo, mongo[i])
          /\ call'.result = Len(mongo) - Len(mongo')
          /\ \A j \in 1..Len(mongo') : Copies(mongo, mongo'[j]) > 0]_vars

\* u1 deleted a conversation of two messages and the message of u2 under the
\* same conversationId is still there
C37_Witness ==
  /\ call.fn = "delete_conversation"
  /\ call.user_id = "u1"
  /\ call.result = 2
  /\ \E i \in 1..Len(mongo) : /\ mongo[i].userId = "u2"
                              /\ mongo[i].conversationId = call.conversation_id

\* u1 lists conversations while u2 holds the latest message of one of them
C37_WitnessRead ==
  /\ call.fn = "get_user_conversations"
  /\ call.user_id = "u1"
  /\ Len(call.result) = 1
  /\ \E i \in OfUser("u2") :
       /\ mongo[i].conversationId = call.result[1].conversationId
       /\ mongo[i].timestamp > call.result[1].timestamp

\* C38: each service singleton is constructed at most once in a process and
\* every request is served by the same instance of it, also when the first
\* requests arrive together.
C38_SingletonsOnce ==
  call.fn = "dependencies" =>
    /\ \A s \in Services : call.built[s] <= 1
    /\ \A q, r \in Requests :
         (call.reqs[q].pc = "resolved" /\ call.reqs[r].pc = "resolved") =>
           /\ call.reqs[q].history = call.reqs[r].history
           /\ (call.reqs[q].rag # 0 /\ call.reqs[r].rag # 0) =>
                call.reqs[q].rag = call.reqs[r].rag

\* C39: a running query eventually is Done or Failed, whatever another query
\* does or fails to do meanwhile.
C39_QueryTerminates ==
  (req.query = "running") ~> (req.query \in {"Done", "Failed"})

\* the query is Done while the other query is still between its fetch and its
\* cache write
C39_Witness ==
  /\ req.query = "Done"
  /\ req.profile_result = "fetched"
  /\ gets[1].pc = "store"

====
